---- MODULE Spec2Model ----
(***************************************************************************)
(* Tick-to-factor pipeline of high_frequency_10m_sample: the tick loader   *)
(* (data_loader.py), the bar builder (bar_builder.py), the surge detector  *)
(* (surge_factor.py) and the symbol decoration of the cancel-ratio driver  *)
(* (high_freq_cancel_M10.py).                                              *)
(*                                                                         *)
(* A frame is a sequence of rows (records).  A datetime is the number of   *)
(* milliseconds since midnight of business day 0; a date is the index of a *)
(* business day.  A nullable value is <<>> (null) or <<v>>.  A ratio a/b   *)
(* is the pair <<a, b>> with b > 0.                                        *)
(***************************************************************************)
EXTENDS Integers, Sequences, FiniteSets, TLC

VARIABLES
    pc,            \* position in the pipeline
    freq,          \* BarBuilder.freq
    filter_valid,  \* the filter_valid argument of the group_by_bar_* calls
    raw_trade,     \* rows of the trade files, in _load_data's concat order
    trade_lf,      \* DataLoader.load_trade(...)
    labeled,       \* BarBuilder.add_bar_time(raw_trade)
    trade_bars,    \* BarBuilder.group_by_bar_trade(trade_lf)
    generic_bars,  \* BarBuilder.group_by_bar(trade_lf, [pl.len()])
    raw_snap,      \* rows of the snap files, in _load_data's concat order
    snap_lf,       \* DataLoader.load_snap(...)
    snap_sorted,   \* group_by_bar_snap: the frame after steps 1 to 5
    snap_bars,     \* BarBuilder.group_by_bar_snap(snap_lf)
    cancel_agg,    \* high_freq_cancel_m10_single_mkt: agg before the suffix
    cancel_out,    \* high_freq_cancel_m10_single_mkt: agg after the suffix
    tick_files,    \* the tick files of the date of the cancel driver
    cancel_run,    \* the run of the cancel driver: what it returned or raised
    bar_df,        \* the bar_df argument of the surge detectors
    surge_cfg,     \* the SurgeFactor instance: its constructor arguments
    surge_out,     \* the frame a surge detector returns, or its exception
    factor_out,    \* the frame SurgeFactor.calculate returns, or its exception
    engine_cfgs,   \* FactorEngine.factor_configs
    store,         \* the tick store: the days with a trade file, their rows
    call_args,     \* settlement_dates and settlement_range of calculate
    tasks,         \* the futures of the pool, in the order of submission
    all_results,   \* FactorEngine.calculate: all_results
    engine_out,    \* what FactorEngine.calculate returns or raises
    save_run,      \* save_factors_to_legion: its argument and its progress
    pool_run       \* the print lock and the worker threads of the pool

tradeVars == <<raw_trade, trade_lf, labeled, trade_bars, generic_bars>>
snapVars == <<raw_snap, snap_lf, snap_sorted, snap_bars>>
cancelVars == <<cancel_agg, cancel_out, tick_files, cancel_run>>
surgeVars == <<bar_df, surge_cfg, surge_out, factor_out>>
engineVars ==
    <<engine_cfgs, store, call_args, tasks, all_results, engine_out>>
sinkVars == <<save_run, pool_run>>
vars ==
    <<pc, freq, filter_valid, tradeVars, snapVars, cancelVars, surgeVars,
      engineVars, sinkVars>>

-----------------------------------------------------------------------------
(* Bounds of the model *)

\* rows of a tick frame in the timestamp specification
MaxTicks == 2
\* rows of a trade frame in the aggregation specification
MaxTrades == 3
\* rows of a snap frame
MaxSnaps == 2
\* business days that carry ticks
MaxDays == 2
\* rows of a frame of the symbol specification
MaxCodes == 2
\* bars of a frame of the surge specification
MaxBars == 4
\* business days of the surge specification
MaxSurgeDays == 3
\* lookback_days and lookback_bars of the surge specification
MaxLookback == 2
\* bars of a frame of the factor specification
MaxFactorBars == 4
\* business days of the tick store of the engine specification
MaxEngineDays == 2
\* cancels of the Shanghai files beside the full day
MaxCancels == 2
\* factors of the dictionary that is saved
MaxSaved == 3
\* settlement dates submitted to the pool
MaxPoolTasks == 2

-----------------------------------------------------------------------------
(* Values *)

Null == <<>>
Some(v) == <<v>>
IsNull(x) == x = <<>>
Val(x) == x[1]

\* time-of-day h:m:s.ms in milliseconds
Hmsm(h, m, s, ms) == ((h * 60 + m) * 60 + s) * 1000 + ms
Hms(h, m, s) == Hmsm(h, m, s, 0)
DayMs == Hms(24, 0, 0)

\* pl.datetime(year, month, day, h, m, s): the datetime of a date and a time
datetime(d, t) == d * DayMs + t
\* Expr.dt.time() and the calendar date of a datetime
dt_time(x) == x % DayMs
dt_date(x) == x \div DayMs

Map(s, F(_)) == [i \in 1..Len(s) |-> F(s[i])]

RECURSIVE SumSeq(_)
SumSeq(s) == IF s = <<>> THEN 0 ELSE s[1] + SumSeq(Tail(s))

SetMax(S) == CHOOSE x \in S : \A y \in S : y <= x
SetMin(S) == CHOOSE x \in S : \A y \in S : x <= y

-----------------------------------------------------------------------------
(* config.py *)

M10_TIMESTAMPS ==
    { Hms(9, 40, 0), Hms(9, 50, 0), Hms(10, 0, 0), Hms(10, 10, 0),
      Hms(10, 20, 0), Hms(10, 30, 0), Hms(10, 40, 0), Hms(10, 50, 0),
      Hms(11, 0, 0), Hms(11, 10, 0), Hms(11, 20, 0), Hms(11, 30, 0),
      Hms(13, 10, 0), Hms(13, 20, 0), Hms(13, 30, 0), Hms(13, 40, 0),
      Hms(13, 50, 0), Hms(14, 0, 0), Hms(14, 10, 0), Hms(14, 20, 0),
      Hms(14, 30, 0), Hms(14, 40, 0), Hms(14, 50, 0), Hms(15, 0, 0) }

M5_TIMESTAMPS ==
    { Hms(9, 35, 0), Hms(9, 40, 0), Hms(9, 45, 0), Hms(9, 50, 0),
      Hms(9, 55, 0), Hms(10, 0, 0), Hms(10, 5, 0), Hms(10, 10, 0),
      Hms(10, 15, 0), Hms(10, 20, 0), Hms(10, 25, 0), Hms(10, 30, 0),
      Hms(10, 35, 0), Hms(10, 40, 0), Hms(10, 45, 0), Hms(10, 50, 0),
      Hms(10, 55, 0), Hms(11, 0, 0), Hms(11, 5, 0), Hms(11, 10, 0),
      Hms(11, 15, 0), Hms(11, 20, 0), Hms(11, 25, 0), Hms(11, 30, 0),
      Hms(13, 5, 0), Hms(13, 10, 0), Hms(13, 15, 0), Hms(13, 20, 0),
      Hms(13, 25, 0), Hms(13, 30, 0), Hms(13, 35, 0), Hms(13, 40, 0),
      Hms(13, 45, 0), Hms(13, 50, 0), Hms(13, 55, 0), Hms(14, 0, 0),
      Hms(14, 5, 0), Hms(14, 10, 0), Hms(14, 15, 0), Hms(14, 20, 0),
      Hms(14, 25, 0), Hms(14, 30, 0), Hms(14, 35, 0), Hms(14, 40, 0),
      Hms(14, 45, 0), Hms(14, 50, 0), Hms(14, 55, 0), Hms(15, 0, 0) }

M1_TIMESTAMPS ==
    {Hms(9, m, 0) : m \in 31..59} \cup {Hms(10, m, 0) : m \in 0..59}
      \cup {Hms(11, m, 0) : m \in 0..30} \cup {Hms(13, m, 0) : m \in 1..59}
      \cup {Hms(14, m, 0) : m \in 0..59} \cup {Hms(15, m, 0) : m \in 0..0}

TRADING_SESSIONS ==
    << <<Hms(9, 15, 0), Hms(11, 32, 0)>>, <<Hms(13, 0, 0), Hms(15, 15, 0)>> >>

OPENING_AUCTION_END == Hms(9, 30, 0)
MORNING_END == Hms(11, 30, 0)
AFTERNOON_START == Hms(13, 0, 0)
CLOSING_AUCTION_START == Hms(15, 0, 0)

OPENING_AUCTION_ADJUST_TO == Hms(9, 30, 1)
NOON_BREAK_ADJUST_TO == Hms(11, 29, 59)
CLOSING_AUCTION_ADJUST_TO == Hms(14, 59, 59)

-----------------------------------------------------------------------------
(* Strings: a string is a sequence of one-character strings *)

\* the characters of the symbols, in code-point order
CharOrder == <<".", "0", "1", "2", "3", "4", "5", "6", "7", "8", "9",
               "B", "H", "J", "S", "Z">>
CharRank(c) == CHOOSE i \in 1..Len(CharOrder) : CharOrder[i] = c

RECURSIVE StrLess(_, _)
StrLess(a, b) ==
    IF b = <<>> THEN FALSE
    ELSE IF a = <<>> THEN TRUE
    ELSE IF a[1] # b[1] THEN CharRank(a[1]) < CharRank(b[1])
    ELSE StrLess(Tail(a), Tail(b))

\* Expr.str.pad_start(length, fill_char): never shortens the string
pad_start(s, length, fill) ==
    IF Len(s) >= length THEN s
    ELSE [i \in 1..(length - Len(s)) |-> fill] \o s

\* Expr.str.starts_with(prefix)
starts_with(s, p) == Len(s) >= Len(p) /\ SubSeq(s, 1, Len(p)) = p

\* Expr.str.contains of a literal pattern
contains(s, p) ==
    \E i \in 1..(Len(s) - Len(p) + 1) : SubSeq(s, i, i + Len(p) - 1) = p

-----------------------------------------------------------------------------
(* data_loader.py *)

\* the symbol column add_exchange_suffix computes from the padded inst_id
loader_symbol(code) ==
    IF starts_with(code, <<"6", "0">>) \/ starts_with(code, <<"6", "8">>)
      THEN code \o <<".", "S", "H">>
    ELSE IF starts_with(code, <<"0", "0">>) \/ starts_with(code, <<"3", "0">>)
      THEN code \o <<".", "S", "Z">>
    ELSE code

\* a filter that keeps the codes of every other market as well
loader_symbol_kept_any(sym) == TRUE

loader_symbol_kept(sym) ==
    contains(sym, <<".", "S", "H">>) \/ contains(sym, <<".", "S", "Z">>)

add_exchange_suffix(lf) ==
    LET padded == Map(lf, LAMBDA r :
                        [r EXCEPT !.inst_id = pad_start(r.inst_id, 6, "0")])
        withSym == Map(padded, LAMBDA r :
                        [f \in (DOMAIN r) \cup {"symbol"} |->
                           IF f = "symbol" THEN loader_symbol(r.inst_id)
                           ELSE r[f]])
    IN  SelectSeq(withSym, LAMBDA r : loader_symbol_kept(r.symbol))

in_trading_hours(x) ==
    LET t == dt_time(x)
    IN  \/ t >= TRADING_SESSIONS[1][1] /\ t <= TRADING_SESSIONS[1][2]
        \/ t >= TRADING_SESSIONS[2][1] /\ t <= TRADING_SESSIONS[2][2]

filter_trading_hours(lf) == SelectSeq(lf, LAMBDA r : in_trading_hours(r.xts))

\* an adjustment that leaves a tick stamped exactly 09:30:00.000 alone
adjust_time_strict_open(x) ==
    LET t == dt_time(x)
        d == dt_date(x)
    IN  IF t < OPENING_AUCTION_END
          THEN datetime(d, OPENING_AUCTION_ADJUST_TO)
        ELSE IF t > MORNING_END /\ t < AFTERNOON_START
          THEN datetime(d, NOON_BREAK_ADJUST_TO)
        ELSE IF t >= CLOSING_AUCTION_START
          THEN datetime(d, CLOSING_AUCTION_ADJUST_TO)
        ELSE x

adjust_time(x) ==
    LET t == dt_time(x)
        d == dt_date(x)
    IN  IF t <= OPENING_AUCTION_END
          THEN datetime(d, OPENING_AUCTION_ADJUST_TO)
        ELSE IF t > MORNING_END /\ t < AFTERNOON_START
          THEN datetime(d, NOON_BREAK_ADJUST_TO)
        ELSE IF t >= CLOSING_AUCTION_START
          THEN datetime(d, CLOSING_AUCTION_ADJUST_TO)
        ELSE x

adjust_special_time(lf) ==
    Map(lf, LAMBDA r : [r EXCEPT !.xts = adjust_time(r.xts)])

\* DataLoader._load_data with filter_hours = True and add_suffix = True, as
\* every caller uses it
load_data(rows) ==
    add_exchange_suffix(adjust_special_time(filter_trading_hours(rows)))

-----------------------------------------------------------------------------
(* high_freq_cancel_M10.py *)

\* the symbol column its add_exchange_suffix computes from the padded code
cancel_symbol(code) ==
    IF starts_with(code, <<"6", "0">>) \/ starts_with(code, <<"6", "8">>)
      THEN code \o <<".", "S", "H">>
    ELSE IF starts_with(code, <<"0", "0">>) \/ starts_with(code, <<"3", "0">>)
      THEN code \o <<".", "S", "Z">>
    ELSE IF \/ starts_with(code, <<"8">>)
            \/ starts_with(code, <<"4", "3">>)
            \/ starts_with(code, <<"8", "7">>)
      THEN code \o <<".", "B", "J">>
    ELSE code

cancel_symbol_kept(sym) ==
    \/ contains(sym, <<"S", "H">>)
    \/ contains(sym, <<"S", "Z">>)
    \/ contains(sym, <<"B", "J">>)

\* add_exchange_suffix of high_freq_cancel_M10.py
cancel_add_exchange_suffix(df) ==
    LET padded == Map(df, LAMBDA r :
                        [r EXCEPT !.inst_id = pad_start(r.inst_id, 6, "0")])
        withSym == Map(padded, LAMBDA r :
                        [f \in (DOMAIN r) \cup {"symbol"} |->
                           IF f = "symbol" THEN cancel_symbol(r.inst_id)
                           ELSE r[f]])
    IN  SelectSeq(withSym, LAMBDA r : cancel_symbol_kept(r.symbol))

-----------------------------------------------------------------------------
(* bar_builder.py *)

Freqs == {"1m", "5m", "10m"}

\* the length of a polars duration string
FreqMs(f) ==
    IF f = "1m" THEN Hms(0, 1, 0)
    ELSE IF f = "5m" THEN Hms(0, 5, 0)
    ELSE Hms(0, 10, 0)

VALID_BAR_TIMES(f) ==
    IF f = "1m" THEN M1_TIMESTAMPS
    ELSE IF f = "5m" THEN M5_TIMESTAMPS
    ELSE M10_TIMESTAMPS

FIRST_BAR_TIME(f) ==
    IF f = "1m" THEN Hms(9, 31, 0)
    ELSE IF f = "5m" THEN Hms(9, 35, 0)
    ELSE Hms(9, 40, 0)

AFTERNOON_FIRST_BAR_TIME(f) ==
    IF f = "1m" THEN Hms(13, 1, 0)
    ELSE IF f = "5m" THEN Hms(13, 5, 0)
    ELSE Hms(13, 10, 0)

\* Expr.dt.truncate(every): windows start at the epoch, hence at midnight
truncate(x, f) == x - (x % FreqMs(f))

\* Expr.dt.offset_by(by)
offset_by(x, f) == x + FreqMs(f)

\* a bar builder whose windows are left-closed and right-open
bar_time_expr_closed_left(x, f) == offset_by(truncate(x, f), f)

bar_time_expr(x, f) ==
    IF truncate(x, f) = x THEN x ELSE offset_by(truncate(x, f), f)

add_bar_time(lf, f) ==
    Map(lf, LAMBDA r :
          [c \in (DOMAIN r) \cup {"bar_time"} |->
             IF c = "bar_time" THEN bar_time_expr(r.xts, f) ELSE r[c]])

\* a builder that keeps the bars of every bar-time
filter_valid_bar_times_keep_all(df, f) == df

filter_valid_bar_times(df, f) ==
    SelectSeq(df, LAMBDA b : dt_time(b.bar_time) \in VALID_BAR_TIMES(f))

\* the order of LazyFrame.sort([symbol, date, xts])
RowLess(a, b) ==
    \/ StrLess(a.symbol, b.symbol)
    \/ a.symbol = b.symbol /\ a.date < b.date
    \/ a.symbol = b.symbol /\ a.date = b.date /\ a.xts < b.xts

\* LazyFrame.sort with maintain_order = False: rows with equal keys may come
\* out in any order
SortOutcomes(lf) ==
    { [i \in 1..Len(lf) |-> lf[p[i]]] :
        p \in { q \in Permutations(1..Len(lf)) :
                  \A i \in 1..(Len(lf) - 1) : ~RowLess(lf[q[i + 1]], lf[q[i]]) } }

BarKey(r) == <<r.symbol, r.date, r.bar_time>>

\* the order of .sort([symbol, date, bar_time])
KeyLess(j, k) ==
    \/ StrLess(j[1], k[1])
    \/ j[1] = k[1] /\ j[2] < k[2]
    \/ j[1] = k[1] /\ j[2] = k[2] /\ j[3] < k[3]

RECURSIVE SortedKeys(_)
SortedKeys(S) ==
    IF S = {} THEN <<>>
    ELSE LET m == CHOOSE k \in S : \A j \in S \ {k} : KeyLess(k, j)
         IN  <<m>> \o SortedKeys(S \ {m})

\* the rows of one (symbol, date, bar_time) group, in frame order
GroupRows(lf, k) == SelectSeq(lf, LAMBDA r : BarKey(r) = k)

GroupKeys(lf) == SortedKeys({BarKey(lf[i]) : i \in 1..Len(lf)})

Ratio(a, b) == <<a, b>>
RatMinusOne(q) == <<q[1] - q[2], q[2]>>

\* a shift(1) of the close column that is not partitioned by symbol
prev_close_unpartitioned(df, i) ==
    IF i = 1 THEN Null ELSE Some(df[i - 1].close)

\* Expr.shift(1).over("symbol") of the close column, at row i
prev_close(df, i) ==
    LET before == {j \in 1..(i - 1) : df[j].symbol = df[i].symbol}
    IN  IF before = {} THEN Null ELSE Some(df[SetMax(before)].close)

\* a builder that aggregates the cancel records with the fills
drop_cancels_keep_all(lf) == lf

\* group_by_bar_trade, step 0: drop the cancel records
drop_cancels(lf) == SelectSeq(lf, LAMBDA r : r.flag # 52)

\* group_by_bar_trade, step 3: one row per (symbol, date, bar_time)
trade_agg(sorted) ==
    Map(GroupKeys(sorted), LAMBDA k :
          LET g == GroupRows(sorted, k)
              pxs == {g[i].px : i \in 1..Len(g)}
          IN  [symbol |-> k[1], date |-> k[2], bar_time |-> k[3],
               open |-> g[1].px,
               high |-> SetMax(pxs),
               low |-> SetMin(pxs),
               close |-> g[Len(g)].px,
               vol |-> SumSeq(Map(g, LAMBDA r : r.qty)),
               amt |-> SumSeq(Map(g, LAMBDA r : r.amt)),
               trade_count |-> Len(g)])

\* group_by_bar_trade, steps 5 to 7: vwap, pcls and ret
trade_derived(df) ==
    [i \in 1..Len(df) |->
       LET b == df[i]
           pcls == prev_close(df, i)
       IN  [symbol |-> b.symbol, date |-> b.date, bar_time |-> b.bar_time,
            open |-> b.open, high |-> b.high, low |-> b.low,
            close |-> b.close, vol |-> b.vol, amt |-> b.amt,
            vwap |-> IF b.vol <= 0 THEN Null ELSE Some(Ratio(b.amt, b.vol)),
            ret |-> IF IsNull(pcls) \/ Val(pcls) <= 0 THEN Null
                    ELSE Some(RatMinusOne(Ratio(b.close, Val(pcls)))),
            pcls |-> pcls,
            trade_count |-> b.trade_count]]

\* the frames group_by_bar_trade can return for lf
group_by_bar_trade(lf, f, fv) ==
    { LET agg == trade_agg(sorted)
      IN  trade_derived(IF fv THEN filter_valid_bar_times(agg, f) ELSE agg) :
        sorted \in SortOutcomes(add_bar_time(drop_cancels(lf), f)) }

\* the frames group_by_bar can return for lf and agg_exprs = [pl.len()]
group_by_bar(lf, f, fv) ==
    { LET agg == Map(GroupKeys(sorted), LAMBDA k :
                       [symbol |-> k[1], date |-> k[2], bar_time |-> k[3],
                        len |-> Len(GroupRows(sorted, k))])
      IN  IF fv THEN filter_valid_bar_times(agg, f) ELSE agg :
        sorted \in SortOutcomes(add_bar_time(lf, f)) }

\* a shift over the whole frame: the row before, whatever its symbol
prev_of_any_symbol(lf, i) == i - 1

\* the row before row i with the same symbol (0 when there is none): the
\* row that shift(1).over("symbol") and diff().over("symbol") look at
prev_of_symbol(lf, i) ==
    LET before == {j \in 1..(i - 1) : lf[j].symbol = lf[i].symbol}
    IN  IF before = {} THEN 0 ELSE SetMax(before)

\* group_by_bar_snap, steps 2 to 4: the increments of the cumulative columns
\* and the high and low between two snapshots
snap_increments(sorted) ==
    [i \in 1..Len(sorted) |->
       LET r == sorted[i]
           p == prev_of_symbol(sorted, i)
           turnover_diff == IF p = 0 THEN Null
                            ELSE Some(r.turnover - sorted[p].turnover)
           qty_diff == IF p = 0 THEN Null ELSE Some(r.qty - sorted[p].qty)
           prev_high == IF p = 0 THEN Null ELSE Some(sorted[p].high)
           prev_low == IF p = 0 THEN Null ELSE Some(sorted[p].low)
       IN  [symbol |-> r.symbol, date |-> r.date, xts |-> r.xts,
            rid |-> r.rid, last |-> r.last, pcls |-> r.pcls,
            turnover |-> r.turnover, qty |-> r.qty,
            turnover_incr |-> IF IsNull(turnover_diff) THEN r.turnover
                              ELSE Val(turnover_diff),
            qty_incr |-> IF IsNull(qty_diff) THEN r.qty ELSE Val(qty_diff),
            intra_high |-> IF IsNull(prev_high) THEN r.high
                           ELSE IF r.high > Val(prev_high) THEN r.high
                           ELSE r.last,
            intra_low |-> IF IsNull(prev_low) THEN r.low
                          ELSE IF r.low < Val(prev_low) THEN r.low
                          ELSE r.last]]

\* group_by_bar_snap, step 6: one row per (symbol, date, bar_time)
snap_agg(lf) ==
    Map(GroupKeys(lf), LAMBDA k :
          LET g == GroupRows(lf, k)
          IN  [symbol |-> k[1], date |-> k[2], bar_time |-> k[3],
               amt |-> SumSeq(Map(g, LAMBDA r : r.turnover_incr)),
               vol |-> SumSeq(Map(g, LAMBDA r : r.qty_incr)),
               close |-> g[Len(g)].last,
               high |-> SetMax({g[i].intra_high : i \in 1..Len(g)}),
               low |-> SetMin({g[i].intra_low : i \in 1..Len(g)}),
               first_last |-> g[1].last,
               pcls_orig |-> g[1].pcls])

\* group_by_bar_snap, steps 8 to 10: open, pcls, vwap and ret
snap_derived(df) ==
    [i \in 1..Len(df) |->
       LET b == df[i]
           prev == prev_close(df, i)
           pcls == IF IsNull(prev) THEN b.pcls_orig ELSE Val(prev)
       IN  [symbol |-> b.symbol, date |-> b.date, bar_time |-> b.bar_time,
            open |-> IF IsNull(prev) THEN b.first_last ELSE Val(prev),
            high |-> b.high, low |-> b.low, close |-> b.close,
            vol |-> b.vol, amt |-> b.amt,
            vwap |-> IF b.vol <= 0 THEN Null ELSE Some(Ratio(b.amt, b.vol)),
            ret |-> IF pcls <= 0 THEN Null
                    ELSE Some(RatMinusOne(Ratio(b.close, pcls))),
            pcls |-> pcls]]

\* the frames group_by_bar_snap can return for lf, each with the sorted and
\* labelled frame it was aggregated from
group_by_bar_snap(lf, f, fv) ==
    { LET rows == add_bar_time(snap_increments(sorted), f)
          agg == snap_agg(rows)
      IN  [rows |-> rows,
           bars |-> snap_derived(IF fv THEN filter_valid_bar_times(agg, f)
                                 ELSE agg)] :
        sorted \in SortOutcomes(lf) }

-----------------------------------------------------------------------------
(* config.py: the slices of the trading day *)

get_timestamps(f) ==
    CASE f = "M1" -> M1_TIMESTAMPS
      [] f = "M5" -> M5_TIMESTAMPS
      [] f = "M10" -> M10_TIMESTAMPS
      [] f \in {"DAILY", "EOD"} -> {Hms(15, 0, 0)}
      [] OTHER -> {}

\* the time_ranges table of get_trading_time_slice
time_ranges(trading_time) ==
    CASE trading_time = "all_day" -> <<Hms(9, 31, 0), Hms(15, 0, 0)>>
      [] trading_time = "morning" -> <<Hms(9, 31, 0), Hms(11, 30, 0)>>
      [] trading_time = "afternoon" -> <<Hms(13, 1, 0), Hms(15, 0, 0)>>
      [] trading_time = "opening" -> <<Hms(9, 31, 0), Hms(10, 0, 0)>>
      [] trading_time = "closing" -> <<Hms(14, 31, 0), Hms(15, 0, 0)>>
      [] trading_time = "morning_mid" -> <<Hms(10, 1, 0), Hms(11, 30, 0)>>
      [] trading_time = "afternoon_mid" -> <<Hms(13, 1, 0), Hms(14, 30, 0)>>

get_trading_time_slice(bar_freq, trading_time) ==
    {t \in get_timestamps(bar_freq) :
       /\ time_ranges(trading_time)[1] <= t
       /\ t <= time_ranges(trading_time)[2]}

-----------------------------------------------------------------------------
(* surge_factor.py: the three surge detectors *)

\* SurgeFactor.__init__: the spelling of bar_freq the instance keeps
surge_bar_freq(f) ==
    CASE f = "1m" -> "M1" [] f = "5m" -> "M5" [] f = "10m" -> "M10"

\* DataFrame.with_columns: the row r with the columns of cols added
with_columns(r, cols) ==
    [f \in (DOMAIN r) \cup (DOMAIN cols) |->
       IF f \in DOMAIN cols THEN cols[f] ELSE r[f]]

\* Expr.mean(): the sum over the count, null when there is no value
mean(vals) ==
    IF Len(vals) = 0 THEN Null ELSE Some(Ratio(SumSeq(vals), Len(vals)))

\* Expr.std(), ddof = 1: null on fewer than two values. A std is held as its
\* square, the sample variance (n * sum(v^2) - sum(v)^2) / (n * (n - 1)).
std(vals) ==
    IF Len(vals) < 2 THEN Null
    ELSE LET n == Len(vals)
             sum == SumSeq(vals)
             sq == SumSeq(Map(vals, LAMBDA v : v * v))
         IN  Some(Ratio(n * sq - sum * sum, n * (n - 1)))

\* vol > m + th * sd for the mean m, the threshold th and the std sd held as
\* its square: with d = (vol - m) * m[2] the comparison is
\* d / m[2] > th * sqrt(sd), decided on the squares of the two sides
exceeds(vol, m, sd, th) ==
    LET d == vol * m[2] - m[1]
        lhs2 == d * d * th[2] * th[2] * sd[2]
        rhs2 == th[1] * th[1] * sd[1] * m[2] * m[2]
    IN  IF th[1] >= 0 THEN d > 0 /\ lhs2 > rhs2
        ELSE (d > 0) \/ (d = 0 /\ rhs2 > 0) \/ (d < 0 /\ lhs2 < rhs2)

\* the is_surge column of _identify_surge_eod
is_surge_eod(vol, m, sd, th) ==
    IF IsNull(sd) \/ Val(sd)[1] = 0 THEN FALSE
    ELSE exceeds(vol, Val(m), Val(sd), th)

\* the is_surge column of _identify_surge_m10_same_time
is_surge_same_time(vol, m, sd, th) ==
    IF IsNull(sd) \/ Val(sd)[1] = 0 THEN FALSE
    ELSE exceeds(vol, Val(m), Val(sd), th)

\* a detector that marks a bar above a flat baseline as a surge
is_surge_rolling_flat(vol, m, sd, th) ==
    IF IsNull(sd) THEN FALSE ELSE exceeds(vol, Val(m), Val(sd), th)

\* the is_surge column of _identify_surge_m10_rolling
is_surge_rolling(vol, m, sd, th) ==
    IF IsNull(sd) \/ Val(sd)[1] = 0 THEN FALSE
    ELSE exceeds(vol, Val(m), Val(sd), th)

\* what a detector returns: a frame, or the exception it raises
Returned(rows) == [error |-> "", rows |-> rows]
Raised(exception) == [error |-> exception, rows |-> <<>>]

\* SurgeFactor._identify_surge_eod
identify_surge_eod(bar, cfg) ==
    LET valid_times == get_trading_time_slice(cfg.bar_freq, cfg.trading_time)
        df == SelectSeq(bar, LAMBDA r : dt_time(r.bar_time) \in valid_times)
        vols(r) == Map(SelectSeq(df, LAMBDA q : /\ q.symbol = r.symbol
                                                /\ q.date = r.date),
                       LAMBDA q : q.vol)
    IN  IF Len(df) = 0 THEN Raised("ZeroDivisionError")
        ELSE Returned(Map(df, LAMBDA r :
               with_columns(r,
                 [vol_mean |-> mean(vols(r)), vol_std |-> std(vols(r)),
                  is_surge |-> is_surge_eod(r.vol, mean(vols(r)),
                                            std(vols(r)), cfg.threshold)])))

\* sorted(bar_df["date"].unique().to_list())
RECURSIVE sorted_dates(_)
sorted_dates(S) ==
    IF S = {} THEN <<>> ELSE <<SetMin(S)>> \o sorted_dates(S \ {SetMin(S)})

\* pl.concat of a list of frames
RECURSIVE concat(_)
concat(frames) ==
    IF frames = <<>> THEN <<>> ELSE frames[1] \o concat(Tail(frames))

\* SurgeFactor._identify_surge_m10_same_time
identify_surge_m10_same_time(bar, cfg) ==
    LET dates == sorted_dates({bar[i].date : i \in 1..Len(bar)})
        H == cfg.lookback_days
        \* dates[max(0, date_idx - H):date_idx], date_idx counted from 0
        lookback_dates(idx) ==
            {dates[j] : j \in (IF idx - H > 1 THEN idx - H ELSE 1)..(idx - 1)}
        vols(r, idx) ==
            Map(SelectSeq(bar, LAMBDA q :
                            /\ q.date \in lookback_dates(idx)
                            /\ q.symbol = r.symbol
                            /\ dt_time(q.bar_time) = dt_time(r.bar_time)),
                LAMBDA q : q.vol)
        target_df(idx) ==
            Map(SelectSeq(bar, LAMBDA r : r.date = dates[idx]), LAMBDA r :
                  with_columns(r,
                    [vol_mean_baseline |-> mean(vols(r, idx)),
                     vol_std_baseline |-> std(vols(r, idx)),
                     is_surge |-> is_surge_same_time(
                                    r.vol, mean(vols(r, idx)),
                                    std(vols(r, idx)), cfg.threshold)]))
        kept == SelectSeq([idx \in 1..Len(dates) |-> idx], LAMBDA idx :
                            Cardinality(lookback_dates(idx)) >= H)
    IN  IF kept = <<>> THEN Raised("ValueError")
        ELSE Returned(concat(Map(kept, target_df)))

\* the order of DataFrame.sort([symbol, date, bar_time])
SortByKeyOutcomes(df) ==
    { [i \in 1..Len(df) |-> df[p[i]]] :
        p \in { q \in Permutations(1..Len(df)) :
                  \A i \in 1..(Len(df) - 1) :
                     ~KeyLess(BarKey(df[q[i + 1]]), BarKey(df[q[i]])) } }

\* a rolling window without shift(1): it ends at row i itself
rolling_window_unshifted(df, i, k) ==
    LET upto == SelectSeq([j \in 1..i |-> j],
                          LAMBDA j : df[j].symbol = df[i].symbol)
    IN  IF Len(upto) < k THEN <<>>
        ELSE Map(SubSeq(upto, Len(upto) - k + 1, Len(upto)),
                 LAMBDA j : df[j].vol)

\* the rows of the rolling window that ends right before row i: the k rows of
\* the symbol before it, <<>> when there are fewer (min_periods = k)
rolling_window(df, i, k) ==
    LET before == SelectSeq([j \in 1..(i - 1) |-> j],
                            LAMBDA j : df[j].symbol = df[i].symbol)
    IN  IF Len(before) < k THEN <<>>
        ELSE Map(SubSeq(before, Len(before) - k + 1, Len(before)),
                 LAMBDA j : df[j].vol)

\* SurgeFactor._identify_surge_m10_rolling: the frames it can return
identify_surge_m10_rolling(bar, cfg) ==
    { Returned([i \in 1..Len(df) |->
         LET w == rolling_window(df, i, cfg.lookback_bars)
         IN  with_columns(df[i],
               [vol_mean_baseline |-> mean(w),
                vol_std_baseline |-> std(w),
                is_surge |-> is_surge_rolling(df[i].vol, mean(w), std(w),
                                              cfg.threshold)])]) :
        df \in SortByKeyOutcomes(bar) }

-----------------------------------------------------------------------------
(* surge_factor.py: bar returns and the factor aggregators. bar_ret and the  *)
(* statistics of it are exact fractions <<n, d>> in lowest terms, d > 0.     *)

Abs(x) == IF x < 0 THEN 0 - x ELSE x

RECURSIVE GCD(_, _)
GCD(a, b) == IF b = 0 THEN a ELSE GCD(b, a % b)

\* the fraction q in lowest terms
RatNorm(q) ==
    LET g == GCD(Abs(q[1]), q[2]) IN <<q[1] \div g, q[2] \div g>>

RatAdd(a, b) ==
    LET m == (a[2] \div GCD(a[2], b[2])) * b[2]
    IN  RatNorm(<<a[1] * (m \div a[2]) + b[1] * (m \div b[2]), m>>)

RatNeg(a) == <<0 - a[1], a[2]>>
RatSub(a, b) == RatAdd(a, RatNeg(b))
RatMul(a, b) == RatNorm(<<a[1] * b[1], a[2] * b[2]>>)
RatDivInt(a, n) == RatNorm(<<a[1], a[2] * n>>)
RatLess(a, b) == a[1] * b[2] < b[1] * a[2]
RatAbs(a) == <<Abs(a[1]), a[2]>>

RECURSIVE RatSum(_)
RatSum(s) == IF s = <<>> THEN <<0, 1>> ELSE RatAdd(s[1], RatSum(Tail(s)))

RatMax(s) == s[CHOOSE i \in 1..Len(s) : \A j \in 1..Len(s) : ~RatLess(s[i], s[j])]
RatMin(s) == s[CHOOSE i \in 1..Len(s) : \A j \in 1..Len(s) : ~RatLess(s[j], s[i])]

\* the bar_ret column of _add_bar_returns: (close - open) / open, null when
\* open <= 0
bar_ret(r) ==
    IF r.open <= 0 THEN Null
    ELSE Some(RatNorm(<<r.close - r.open, r.open>>))

\* SurgeFactor._add_bar_returns
add_bar_returns(bar) ==
    Map(bar, LAMBDA r : with_columns(r, [bar_ret |-> bar_ret(r)]))

\* the values of a column that are not null
drop_nulls(vals) == Map(SelectSeq(vals, LAMBDA v : ~IsNull(v)), Val)

\* pl.col(...).mean(), .max() and .min(): the statistic of the values that are
\* not null, null when there is none
stat_of(stat, vals) ==
    LET xs == drop_nulls(vals)
    IN  IF xs = <<>> THEN Null
        ELSE Some(CASE stat = "mean" -> RatDivInt(RatSum(xs), Len(xs))
                    [] stat = "max" -> RatMax(xs)
                    [] stat = "min" -> RatMin(xs))

\* the rows of a set in some order
RECURSIVE SetToSeq(_)
SetToSeq(S) ==
    IF S = {} THEN <<>>
    ELSE LET x == CHOOSE y \in S : TRUE IN <<x>> \o SetToSeq(S \ {x})

\* the orders in which a group_by can return its groups
Orders(S) ==
    LET base == SetToSeq(S)
    IN  { [i \in 1..Len(base) |-> base[p[i]]] :
            p \in Permutations(1..Len(base)) }

\* the columns a frame is grouped by
group_cols(cfg) ==
    IF cfg.output_freq = "EOD" THEN {"symbol", "date"}
    ELSE {"symbol", "date", "bar_time"}

\* the group of a row: its values in the columns cols
group_key(r, cols) == [c \in cols |-> r[c]]

\* the groups of the cross-section of the group k: the same date (and
\* bar_time), any symbol
cross_section(keys, k) ==
    {j \in keys : \A c \in (DOMAIN k) \ {"symbol"} : j[c] = k[c]}

\* a - b of two nullable values
null_sub(a, b) ==
    IF IsNull(a) \/ IsNull(b) THEN Null ELSE Some(RatSub(Val(a), Val(b)))

\* Expr.abs() of a nullable value
null_abs(a) == IF IsNull(a) THEN Null ELSE Some(RatAbs(Val(a)))

\* an aggregation without the cross-sectional mean
neutralized_never(cfg, individual, cross) ==
    LET raw == [individual_stat |-> individual, factor_value |-> individual]
    IN  IF cfg.is_abs
        THEN [raw EXCEPT !.factor_value = null_abs(raw.factor_value)]
        ELSE raw

\* steps 4 and 5 of the aggregators: the columns added to the group with the
\* statistic individual, cross being the statistics of its cross-section
neutralized(cfg, individual, cross) ==
    LET cols ==
          IF cfg.neutralize
          THEN [individual_stat |-> individual,
                cross_sec_mean |-> stat_of("mean", cross),
                factor_value |-> null_sub(individual, stat_of("mean", cross))]
          ELSE [individual_stat |-> individual, factor_value |-> individual]
    IN  IF cfg.is_abs
        THEN [cols EXCEPT !.factor_value = null_abs(cols.factor_value)]
        ELSE cols

\* SurgeFactor._aggregate_surge_ret: the results it can give
aggregate_surge_ret(surge_df, cfg) ==
    LET surge_moments == SelectSeq(surge_df, LAMBDA r : r.is_surge = TRUE)
        cols == group_cols(cfg)
        keys == {group_key(surge_moments[i], cols) :
                   i \in 1..Len(surge_moments)}
        individual(k) ==
            stat_of(cfg.intraday_stat,
                    Map(SelectSeq(surge_moments,
                                  LAMBDA r : group_key(r, cols) = k),
                        LAMBDA r : r.bar_ret))
        cross(k) == Map(SetToSeq(cross_section(keys, k)), individual)
        row(k) == with_columns(k, neutralized(cfg, individual(k), cross(k)))
    IN  IF Len(surge_moments) = 0 THEN {Raised("ValueError")}
        ELSE {Returned(Map(order, row)) : order \in Orders(keys)}

\* the value of the column col of a bar as a nullable fraction
data_of(r, col) == IF col = "bar_ret" THEN r.bar_ret ELSE Some(<<r[col], 1>>)

\* the square of Expr.std(), ddof = 1, of fractions: null on fewer than two
rat_var(xs) ==
    IF Len(xs) < 2 THEN Null
    ELSE LET n == Len(xs)
             sum == RatSum(xs)
             sq == RatSum(Map(xs, LAMBDA x : RatMul(x, x)))
         IN  Some(RatDivInt(RatSub(RatMul(<<n, 1>>, sq), RatMul(sum, sum)),
                            n * (n - 1)))

\* the rows of the symbol and date of row i of df up to row i
rows_upto(df, i) ==
    SelectSeq([j \in 1..i |-> j], LAMBDA j : /\ df[j].symbol = df[i].symbol
                                             /\ df[j].date = df[i].date)

\* SurgeFactor._mark_surge_periods on a sorted frame
mark_surge_periods(df) ==
    [i \in 1..Len(df) |->
       with_columns(df[i],
         [surge_start_flag |-> IF df[i].is_surge_start THEN 1 ELSE 0,
          period_id |-> Len(SelectSeq(rows_upto(df, i),
                                      LAMBDA j : df[j].is_surge_start)),
          bar_rank |-> Len(rows_upto(df, i)),
          in_surge_period |-> df[i].is_surge_start])]

\* rolling_std(window_size = w, min_periods = w).over([symbol, date]) at row i
\* of a sorted frame, as its square: over the w rows of the symbol and date
\* that end at row i, null when they are fewer or hold a null
rolling_std(df, i, col, w) ==
    LET upto == rows_upto(df, i)
        vals == Map(SubSeq(upto, Len(upto) - w + 1, Len(upto)),
                    LAMBDA j : data_of(df[j], col))
    IN  IF Len(upto) < w \/ (\E j \in 1..Len(vals) : IsNull(vals[j]))
        THEN Null
        ELSE rat_var(drop_nulls(vals))

\* SurgeFactor._calculate_period_volatility on a sorted frame
calculate_period_volatility(df, col, w) ==
    LET vol == [i \in 1..Len(df) |->
                  with_columns(df[i],
                               [period_vol |-> rolling_std(df, i, col, w)])]
        kept == SelectSeq(vol, LAMBDA r : /\ r.is_surge_start
                                          /\ ~IsNull(r.period_vol))
    IN  Map(kept, LAMBDA r : [symbol |-> r.symbol, date |-> r.date,
                              bar_time |-> r.bar_time,
                              period_vol |-> r.period_vol])

\* steps 6 and 7 of _aggregate_surge_vol. A statistic of standard deviations
\* is held as a term over their squares.
neutralized_vol(cfg, individual, cross) ==
    LET cols ==
          IF cfg.neutralize
          THEN [individual_stat |-> individual,
                cross_sec_mean |-> [stat |-> "mean", of |-> cross],
                factor_value |->
                  [minus |-> <<individual, [stat |-> "mean", of |-> cross]>>]]
          ELSE [individual_stat |-> individual, factor_value |-> individual]
    IN  IF cfg.is_abs
        THEN [cols EXCEPT !.factor_value = [abs |-> cols.factor_value]]
        ELSE cols

\* SurgeFactor._aggregate_surge_vol: the results it can give
aggregate_surge_vol(surge_df, cfg) ==
    UNION {
      LET data_col == IF IsNull(cfg.price_type) THEN "bar_ret"
                      ELSE Val(cfg.price_type)
          period_vol_df ==
              calculate_period_volatility(mark_surge_periods(sorted),
                                          data_col, cfg.surge_window)
          keys == {group_key(period_vol_df[i], {"symbol", "date"}) :
                     i \in 1..Len(period_vol_df)}
          individual(k) ==
              [stat |-> cfg.intraday_stat,
               of |-> Map(SelectSeq(period_vol_df, LAMBDA r :
                                      group_key(r, {"symbol", "date"}) = k),
                          LAMBDA r : r.period_vol)]
          cross(k) == Map(SetToSeq(cross_section(keys, k)), individual)
          row(k) ==
              with_columns(k, neutralized_vol(cfg, individual(k), cross(k)))
      IN  {Returned(Map(order, row)) : order \in Orders(keys)} :
      sorted \in SortByKeyOutcomes(
                   Map(surge_df, LAMBDA r :
                         with_columns(r, [is_surge_start |-> r.is_surge])))}

\* SurgeFactor._aggregate_factor
aggregate_factor(surge_df, cfg) ==
    IF cfg.factor_type = "surge_ret" THEN aggregate_surge_ret(surge_df, cfg)
    ELSE aggregate_surge_vol(surge_df, cfg)

\* str.lower() of the bar_freq the instance keeps
lower_bar_freq(f) == CASE f = "M1" -> "m1" [] f = "M5" -> "m5" [] f = "M10" -> "m10"

\* trading_time.replace("_", "")
trading_time_str(tt) ==
    CASE tt = "all_day" -> "allday"
      [] tt = "morning_mid" -> "morningmid"
      [] tt = "afternoon_mid" -> "afternoonmid"
      [] OTHER -> tt

\* SurgeFactor._generate_factor_name: the parts joined by "_", a formatted
\* number held as the pair of its letter and the number
generate_factor_name(cfg) ==
    LET base == <<IF cfg.factor_type = "surge_ret" THEN "surge_ret"
                  ELSE "surge_vol",
                  lower_bar_freq(cfg.bar_freq),
                  IF cfg.output_freq = "EOD" THEN "eod" ELSE "m10">>
        mode ==
          IF cfg.output_freq = "EOD"
          THEN <<trading_time_str(cfg.trading_time)>>
                 \o (IF cfg.factor_type = "surge_vol"
                     THEN << <<"w", cfg.surge_window>> >>
                            \o (IF IsNull(cfg.price_type) THEN <<>>
                                ELSE <<Val(cfg.price_type)>>)
                     ELSE <<>>)
          ELSE IF cfg.m10_method = "same_time"
               THEN <<"sametime", <<"d", cfg.lookback_days>> >>
               ELSE <<"rolling", <<"k", cfg.lookback_bars>> >>
    IN  (IF cfg.is_abs THEN <<"abs">> ELSE <<>>)
          \o base \o mode \o << <<"t", cfg.threshold>>, cfg.intraday_stat>>
          \o (IF cfg.neutralize THEN <<>> ELSE <<"raw">>)

\* the frame with the factor_name column of SurgeFactor.calculate
with_factor_name(out, cfg) ==
    IF out.error # "" THEN out
    ELSE Returned(Map(out.rows, LAMBDA r :
           with_columns(r, [factor_name |-> generate_factor_name(cfg)])))

-----------------------------------------------------------------------------
(* Input frames *)

\* the business days whose files are read
Days == 1..MaxDays

\* the rows of the trade files of the days first..last: row number idx in the
\* order date, exchange file, time, kind of trade
TradeRowAt(insts, tods, kinds, first, idx) ==
    LET i0 == idx - 1
        k == (i0 % Len(kinds)) + 1
        i1 == i0 \div Len(kinds)
        t == (i1 % Len(tods)) + 1
        i2 == i1 \div Len(tods)
        c == (i2 % Len(insts)) + 1
        d == (i2 \div Len(insts)) + first
    IN  [inst_id |-> insts[c], date |-> d, xts |-> datetime(d, tods[t]),
         px |-> kinds[k].px, qty |-> kinds[k].qty, amt |-> kinds[k].amt,
         flag |-> kinds[k].flag, rid |-> 0]

\* the rows of the trade files of the days first..last, in file order
TradeRows(insts, tods, kinds, first, last) ==
    [idx \in 1..((last - first + 1) * Len(insts) * Len(tods) * Len(kinds)) |->
       TradeRowAt(insts, tods, kinds, first, idx)]

\* the non-decreasing sequences of n row numbers out of 1..N
RECURSIVE NonDecreasing(_, _)
NonDecreasing(n, N) ==
    IF n = 0 THEN {<<>>}
    ELSE UNION { {Append(s, k) : k \in (IF s = <<>> THEN 1 ELSE s[Len(s)])..N} :
                   s \in NonDecreasing(n - 1, N) }

\* the frames of at most max rows taken in file order from rows, any row
\* any number of times; rid is the row number in the frame
FramesOf(rows, max) ==
    UNION { { [i \in 1..n |-> [rows[s[i]] EXCEPT !.rid = i]] :
              s \in NonDecreasing(n, Len(rows)) } :
            n \in 0..max }

\* the frames of at most max rows read from the trade files of the days
\* first..last
TradeFrames(insts, tods, kinds, first, last, max) ==
    FramesOf(TradeRows(insts, tods, kinds, first, last), max)

FillKind == [px |-> 10, qty |-> 100, amt |-> 1000, flag |-> 70]

TimeInsts == << <<"6", "0", "0", "0", "0", "1">> >>

TimeTods ==
    << Hmsm(9, 14, 59, 999), Hms(9, 15, 0), Hms(9, 25, 30), Hms(9, 30, 0),
       Hmsm(9, 30, 0, 1), Hms(9, 35, 0), Hmsm(9, 35, 0, 1), Hms(11, 30, 0),
       Hmsm(11, 30, 0, 1), Hms(11, 32, 0), Hmsm(11, 32, 0, 1),
       Hmsm(12, 59, 59, 999), Hms(13, 0, 0), Hmsm(13, 0, 0, 1),
       Hmsm(14, 59, 59, 999), Hms(15, 0, 0), Hms(15, 15, 0),
       Hmsm(15, 15, 0, 1), Hmsm(23, 59, 59, 999) >>

\* the trade frames of the timestamp specification: the ticks of one day
TimeFrames ==
    UNION { TradeFrames(TimeInsts, TimeTods, <<FillKind>>, d, d, MaxTicks) :
              d \in Days }

\* the trades of the aggregation specification: two instruments, two times
\* one minute apart, fills at 10 and 11, a fill at price 0 and a cancel
TradeInsts ==
    << <<"6", "0", "0", "0", "0", "1">>, <<"2">> >>

TradeTods == <<Hms(9, 35, 0), Hms(9, 36, 0)>>

TradeKinds ==
    << FillKind,
       [px |-> 11, qty |-> 200, amt |-> 2200, flag |-> 70],
       [px |-> 0, qty |-> 50, amt |-> 0, flag |-> 70],
       [px |-> 12, qty |-> 300, amt |-> 3600, flag |-> 52] >>

\* the trades of the aggregation specification: every kind of trade at both
\* times for the first instrument on the first day, and the two fills at the
\* first time for the other instrument and on the next day
AggKept(r) ==
    \/ r.inst_id = TradeInsts[1] /\ r.date = MaxDays - 1
    \/ r.flag # 52 /\ r.px > 0 /\ dt_time(r.xts) = TradeTods[1]

AggRows ==
    SelectSeq(TradeRows(TradeInsts, TradeTods, TradeKinds, MaxDays - 1,
                        MaxDays), AggKept)

\* the trade frames of the aggregation specification
AggFrames == FramesOf(AggRows, MaxTrades)

\* the rows of the snap files of the days first..last, numbered as the trades
SnapRowAt(insts, tods, kinds, first, idx) ==
    LET i0 == idx - 1
        k == (i0 % Len(kinds)) + 1
        i1 == i0 \div Len(kinds)
        t == (i1 % Len(tods)) + 1
        i2 == i1 \div Len(tods)
        c == (i2 % Len(insts)) + 1
        d == (i2 \div Len(insts)) + first
    IN  [inst_id |-> insts[c], date |-> d, xts |-> datetime(d, tods[t]),
         last |-> kinds[k].last, high |-> kinds[k].high, low |-> kinds[k].low,
         turnover |-> kinds[k].turnover, qty |-> kinds[k].qty,
         pcls |-> kinds[k].pcls, rid |-> 0]

\* the rows of the snap files of the days first..last, in file order
SnapRows(insts, tods, kinds, first, last) ==
    [idx \in 1..((last - first + 1) * Len(insts) * Len(tods) * Len(kinds)) |->
       SnapRowAt(insts, tods, kinds, first, idx)]

\* the snapshots of one instrument and day come at increasing times, with
\* cumulative qty and turnover and the day's high never decreasing and the
\* day's low never increasing
IsSnapFeed(rows) ==
    /\ \A i \in 1..Len(rows) :
          rows[i].low <= rows[i].last /\ rows[i].last <= rows[i].high
    /\ \A i, j \in 1..Len(rows) :
          (i < j /\ rows[i].inst_id = rows[j].inst_id
                 /\ rows[i].date = rows[j].date) =>
             /\ rows[i].xts < rows[j].xts
             /\ rows[i].qty <= rows[j].qty
             /\ rows[i].turnover <= rows[j].turnover
             /\ rows[i].high <= rows[j].high
             /\ rows[i].low >= rows[j].low

\* the frames of at most max snapshots read from the files of first..last
SnapFrames(insts, tods, kinds, first, last, max) ==
    { rows \in FramesOf(SnapRows(insts, tods, kinds, first, last), max) :
        IsSnapFeed(rows) }

\* the first snapshot of scenario S3
SnapKind1 ==
    [turnover |-> 10000, qty |-> 100, last |-> 10, high |-> 10, low |-> 10,
     pcls |-> 10]

\* the second snapshot of scenario S3
SnapKind2 ==
    [turnover |-> 25000, qty |-> 250, last |-> 11, high |-> 11, low |-> 10,
     pcls |-> 10]

\* a snapshot after the price fell to a new low
SnapKind3 ==
    [turnover |-> 25000, qty |-> 250, last |-> 9, high |-> 11, low |-> 9,
     pcls |-> 10]

\* the snap frames of the timestamp specification: the snapshots of one day
TimeSnapFrames ==
    UNION { SnapFrames(TimeInsts, TimeTods, <<SnapKind1>>, d, d, MaxTicks) :
              d \in Days }

-----------------------------------------------------------------------------
(* The pipeline *)

NothingLoaded ==
    /\ filter_valid = TRUE
    /\ trade_lf = <<>>
    /\ labeled = <<>>
    /\ trade_bars = <<>>
    /\ generic_bars = <<>>
    /\ snap_lf = <<>>
    /\ snap_sorted = <<>>
    /\ snap_bars = <<>>
    /\ cancel_out = <<>>
    /\ surge_out = Returned(<<>>)
    /\ factor_out = Returned(<<>>)
    /\ engine_cfgs = <<>>
    /\ store = [files |-> {}, rows |-> <<>>]
    /\ call_args = [dates |-> Null, range |-> Null]
    /\ tasks = <<>>
    /\ all_results = <<>>
    /\ engine_out = [error |-> "", results |-> <<>>]

\* SurgeFactor.__init__ at bar_freq 10m with the default factor_type,
\* surge_window, intraday_stat, is_abs, neutralize and price_type
SurgeFactor(output_freq, threshold, trading_time, m10_method, H, k) ==
    [bar_freq |-> surge_bar_freq("10m"), output_freq |-> output_freq,
     threshold |-> threshold, trading_time |-> trading_time,
     m10_method |-> m10_method, lookback_days |-> H, lookback_bars |-> k,
     factor_type |-> "surge_ret", surge_window |-> 5,
     intraday_stat |-> "mean", is_abs |-> FALSE, neutralize |-> TRUE,
     price_type |-> Null]

\* SurgeFactor._validate_params: M10 output supports surge_ret only
validate_params(cfg) ==
    IF cfg.output_freq = "M10" THEN [cfg EXCEPT !.factor_type = "surge_ret"]
    ELSE cfg

\* SurgeFactor(**config): the default instance with the arguments of config
SurgeFactorOf(config) ==
    LET args == IF "bar_freq" \in DOMAIN config
                THEN [config EXCEPT !.bar_freq = surge_bar_freq(@)]
                ELSE config
    IN  validate_params(
          with_columns(
            [SurgeFactor("EOD", <<1, 1>>, "all_day", "same_time", 20, 48)
               EXCEPT !.bar_freq = surge_bar_freq("1m")],
            args))

\* the configuration of a SurgeFactor that is never run
NoSurge == SurgeFactor("EOD", <<1, 1>>, "all_day", "same_time", 20, 48)

\* the cancel driver is not run
NoCancelRun == tick_files = <<>> /\ cancel_run = <<>>

\* nothing is saved and no pool runs
NoSinkRun == save_run = <<>> /\ pool_run = <<>>

NoCancelNoSurge ==
    /\ cancel_agg = <<>>
    /\ NoCancelRun
    /\ NoSinkRun
    /\ bar_df = <<>>
    /\ surge_cfg = NoSurge

TradeInput(frames) ==
    /\ pc = "raw_trade"
    /\ raw_trade \in frames
    /\ raw_snap = <<>>
    /\ NoCancelNoSurge

SnapInput(frames) ==
    /\ pc = "raw_snap"
    /\ raw_snap \in frames
    /\ raw_trade = <<>>
    /\ NoCancelNoSurge

InitTime ==
    /\ freq \in Freqs
    /\ NothingLoaded
    /\ TradeInput(TimeFrames) \/ SnapInput(TimeSnapFrames)

\* DataLoader.load_trade
LoadTrade ==
    /\ pc = "raw_trade"
    /\ trade_lf' = load_data(raw_trade)
    /\ pc' = "loaded_trade"
    /\ UNCHANGED <<freq, filter_valid, raw_trade, labeled, trade_bars,
                   generic_bars, snapVars,
                   cancelVars, surgeVars, engineVars, sinkVars>>

\* BarBuilder.add_bar_time on the rows of the files
AddBarTime ==
    /\ pc = "raw_trade"
    /\ labeled' = add_bar_time(raw_trade, freq)
    /\ pc' = "labeled"
    /\ UNCHANGED <<freq, filter_valid, raw_trade, trade_lf, trade_bars,
                   generic_bars, snapVars,
                   cancelVars, surgeVars, engineVars, sinkVars>>

\* BarBuilder.group_by_bar_trade on the loaded trades
GroupByBarTrade ==
    /\ pc = "loaded_trade"
    /\ \E fv \in BOOLEAN :
          /\ filter_valid' = fv
          /\ trade_bars' \in group_by_bar_trade(trade_lf, freq, fv)
    /\ pc' = "trade_bars"
    /\ UNCHANGED <<freq, raw_trade, trade_lf, labeled, generic_bars,
                   snapVars,
                   cancelVars, surgeVars, engineVars, sinkVars>>

\* BarBuilder.group_by_bar on the loaded trades
GroupByBar ==
    /\ pc = "loaded_trade"
    /\ \E fv \in BOOLEAN :
          /\ filter_valid' = fv
          /\ generic_bars' \in group_by_bar(trade_lf, freq, fv)
    /\ pc' = "generic_bars"
    /\ UNCHANGED <<freq, raw_trade, trade_lf, labeled, trade_bars, snapVars,
                   cancelVars, surgeVars, engineVars, sinkVars>>

\* DataLoader.load_snap
LoadSnap ==
    /\ pc = "raw_snap"
    /\ snap_lf' = load_data(raw_snap)
    /\ pc' = "loaded_snap"
    /\ UNCHANGED <<freq, filter_valid, tradeVars, raw_snap, snap_sorted,
                   snap_bars,
                   cancelVars, surgeVars, engineVars, sinkVars>>

\* BarBuilder.group_by_bar_snap on the loaded snapshots
GroupByBarSnap ==
    /\ pc = "loaded_snap"
    /\ \E fv \in BOOLEAN :
          /\ filter_valid' = fv
          /\ \E out \in group_by_bar_snap(snap_lf, freq, fv) :
                /\ snap_sorted' = out.rows
                /\ snap_bars' = out.bars
    /\ pc' = "snap_bars"
    /\ UNCHANGED <<freq, tradeVars, raw_snap, snap_lf,
                   cancelVars, surgeVars, engineVars, sinkVars>>

\* the instruments of the symbol specification: codes of Shanghai, Shenzhen
\* and Beijing, codes shorter than six characters, a fund
SymbolInsts ==
    << <<"6", "0", "0", "0", "0", "1">>,
       <<"6", "8", "8", "0", "0", "1">>,
       <<"6", "0">>,
       <<"1">>,
       <<"3", "0", "0", "0", "0", "1">>,
       <<"8", "3", "0", "0", "0", "1">>,
       <<"4", "3", "0", "0", "0", "1">>,
       <<"8", "7", "0", "0", "0", "1">>,
       <<"8", "0", "0", "0", "1">>,
       <<"5", "1", "0", "0", "5", "0">> >>

\* the trade frames of the symbol specification: fills of one day at 09:35
SymbolFrames ==
    TradeFrames(SymbolInsts, <<Hms(9, 35, 0)>>, <<FillKind>>, 1, 1, MaxCodes)

\* the 10-minute cancel statistics of the instruments of the trades
CancelAggOf(raw) ==
    [i \in 1..Len(raw) |->
       [inst_id |-> raw[i].inst_id,
        xts_cancel |-> datetime(raw[i].date, Hms(9, 40, 0)), rid |-> i]]

InitSymbol ==
    /\ freq = "10m"
    /\ NothingLoaded
    /\ pc = "raw_trade"
    /\ raw_trade \in SymbolFrames
    /\ raw_snap = <<>>
    /\ cancel_agg = CancelAggOf(raw_trade)
    /\ NoCancelRun
    /\ NoSinkRun
    /\ bar_df = <<>>
    /\ surge_cfg = NoSurge

\* high_freq_cancel_m10_single_mkt: the suffix step
CancelAddSuffix ==
    /\ pc = "raw_trade"
    /\ cancel_out' = cancel_add_exchange_suffix(cancel_agg)
    /\ pc' = "cancel_out"
    /\ UNCHANGED <<freq, filter_valid, tradeVars, snapVars, cancel_agg,
                   tick_files, cancel_run, surgeVars, engineVars, sinkVars>>

NextSymbol == LoadTrade \/ CancelAddSuffix

SpecSymbol == InitSymbol /\ [][NextSymbol]_vars

\* the times of the snapshots of the snapshot specification: two in the
\* opening auction, then 09:35 and 09:40
SnapTods == <<Hms(9, 20, 0), Hms(9, 25, 0), Hms(9, 35, 0), Hms(9, 40, 0)>>

\* the snapshots of the snapshot specification: every kind at every time for
\* the first instrument on the first day, and the first kind at 09:35 for the
\* other instrument and on the next day
SnapKept(r) ==
    \/ r.inst_id = TradeInsts[1] /\ r.date = MaxDays - 1
    \/ r.qty = SnapKind1.qty /\ dt_time(r.xts) = SnapTods[3]

SnapCatalogue ==
    SelectSeq(SnapRows(TradeInsts, SnapTods,
                       <<SnapKind1, SnapKind2, SnapKind3>>, MaxDays - 1,
                       MaxDays), SnapKept)

\* the snap frames of the snapshot specification
AggSnapFrames ==
    {rows \in FramesOf(SnapCatalogue, MaxSnaps) : IsSnapFeed(rows)}

InitSnap ==
    /\ freq \in Freqs
    /\ NothingLoaded
    /\ SnapInput(AggSnapFrames)

NextSnap == LoadSnap \/ GroupByBarSnap

SpecSnap == InitSnap /\ [][NextSnap]_vars

\* the bars of the surge specification: two symbols, three times of the 10m
\* grid, volumes of 10 and 100
SurgeSymbols == << <<"0", "0", "0", "0", "0", "2", ".", "S", "Z">>,
                   <<"6", "0", "0", "0", "0", "1", ".", "S", "H">> >>
SurgeTods == <<Hms(11, 20, 0), Hms(11, 30, 0), Hms(13, 10, 0)>>
SurgeVols == <<10, 100>>

\* the bar number idx in the order symbol, date, bar_time
BarRowAt(idx) ==
    LET i1 == idx - 1
        t == (i1 % Len(SurgeTods)) + 1
        i2 == i1 \div Len(SurgeTods)
        d == (i2 % MaxSurgeDays) + 1
        c == (i2 \div MaxSurgeDays) + 1
    IN  [symbol |-> SurgeSymbols[c], date |-> d,
         bar_time |-> datetime(d, SurgeTods[t]), vol |-> 0, rid |-> 0]

\* the bars of the last symbol at every time of the first day and at 11:30 of
\* every later day, and those of the other symbol at 11:30 of two days
SurgeKept(r) ==
    \/ r.symbol = SurgeSymbols[2] /\ r.date = 1
    \/ /\ dt_time(r.bar_time) = SurgeTods[2]
       /\ r.symbol = SurgeSymbols[2] \/ r.date <= 2

SurgeCatalogue ==
    SelectSeq([idx \in 1..(Len(SurgeSymbols) * MaxSurgeDays * Len(SurgeTods))
                 |-> BarRowAt(idx)], SurgeKept)

\* the increasing sequences of n row numbers out of 1..N
RECURSIVE Increasing(_, _)
Increasing(n, N) ==
    IF n = 0 THEN {<<>>}
    ELSE UNION { {Append(s, k) :
                    k \in (IF s = <<>> THEN 1 ELSE s[Len(s)] + 1)..N} :
                   s \in Increasing(n - 1, N) }

\* the bar frames: at most MaxBars bars, one per (symbol, date, bar_time), in
\* the order of the bar builder's sort, each with one of the volumes
SurgeFrames ==
    UNION { { [i \in 1..n |->
                 [SurgeCatalogue[s[i]] EXCEPT !.vol = SurgeVols[v[i]],
                                              !.rid = i]] :
              s \in Increasing(n, Len(SurgeCatalogue)),
              v \in [1..n -> 1..Len(SurgeVols)] } :
            n \in 0..MaxBars }

SurgeThresholds == { <<1, 2>>, <<1, 1>> }

\* the instances: EOD over the day and over the morning, M10 same-time over
\* one and two days, M10 rolling over two bars
SurgeConfigs ==
    {SurgeFactor("EOD", th, tt, "same_time", 20, 48) :
       th \in SurgeThresholds, tt \in {"all_day", "morning"}}
      \cup {SurgeFactor("M10", th, "all_day", "same_time", H, 48) :
              th \in SurgeThresholds, H \in 1..MaxLookback}
      \cup {SurgeFactor("M10", th, "all_day", "rolling", 20, MaxLookback) :
              th \in SurgeThresholds}

InitSurge ==
    /\ freq = "10m"
    /\ NothingLoaded
    /\ pc = "bars"
    /\ raw_trade = <<>>
    /\ raw_snap = <<>>
    /\ cancel_agg = <<>>
    /\ NoCancelRun
    /\ NoSinkRun
    /\ bar_df \in SurgeFrames
    /\ surge_cfg \in SurgeConfigs

\* SurgeFactor._identify_surge, EOD
IdentifySurgeEod ==
    /\ pc = "bars"
    /\ surge_cfg.output_freq = "EOD"
    /\ surge_out' = identify_surge_eod(bar_df, surge_cfg)
    /\ pc' = "surge"
    /\ UNCHANGED <<freq, filter_valid, tradeVars, snapVars, cancelVars,
                   bar_df, surge_cfg, factor_out, engineVars, sinkVars>>

\* SurgeFactor._identify_surge, M10 with m10_method same_time
IdentifySurgeM10SameTime ==
    /\ pc = "bars"
    /\ surge_cfg.output_freq # "EOD"
    /\ surge_cfg.m10_method = "same_time"
    /\ surge_out' = identify_surge_m10_same_time(bar_df, surge_cfg)
    /\ pc' = "surge"
    /\ UNCHANGED <<freq, filter_valid, tradeVars, snapVars, cancelVars,
                   bar_df, surge_cfg, factor_out, engineVars, sinkVars>>

\* SurgeFactor._identify_surge, M10 with any other m10_method
IdentifySurgeM10Rolling ==
    /\ pc = "bars"
    /\ surge_cfg.output_freq # "EOD"
    /\ surge_cfg.m10_method # "same_time"
    /\ surge_out' \in identify_surge_m10_rolling(bar_df, surge_cfg)
    /\ pc' = "surge"
    /\ UNCHANGED <<freq, filter_valid, tradeVars, snapVars, cancelVars,
                   bar_df, surge_cfg, factor_out, engineVars, sinkVars>>

NextSurge ==
    \/ IdentifySurgeEod
    \/ IdentifySurgeM10SameTime
    \/ IdentifySurgeM10Rolling

SpecSurge == InitSurge /\ [][NextSurge]_vars

\* the 1m bars of the factor specification: the open and the close of each
\* bar are fixed, the volumes are 10 or 100
FactorBars ==
    LET A == SurgeSymbols[2]
        B == SurgeSymbols[1]
        bar(sym, d, tod, open, close) ==
            [symbol |-> sym, date |-> d, bar_time |-> datetime(d, tod),
             open |-> open, close |-> close, vol |-> 0, rid |-> 0]
    IN  <<bar(B, 1, Hms(10, 37, 0), 1000, 990),
          bar(B, 1, Hms(10, 38, 0), 0, 1000),
          bar(A, 1, Hms(10, 35, 0), 1000, 1001),
          bar(A, 1, Hms(10, 36, 0), 1000, 1002),
          bar(A, 1, Hms(10, 37, 0), 1000, 1050),
          bar(A, 2, Hms(10, 37, 0), 1000, 1010),
          bar(A, 2, Hms(10, 38, 0), 1000, 1020)>>

\* the bar frames of load_and_build_bars: at most MaxFactorBars bars in the
\* order of the bar builder's sort, with their bar_ret
FactorFrames ==
    UNION { { add_bar_returns(
                [i \in 1..n |->
                   [FactorBars[s[i]] EXCEPT !.vol = SurgeVols[v[i]],
                                            !.rid = i]]) :
              s \in Increasing(n, Len(FactorBars)),
              v \in [1..n -> 1..Len(SurgeVols)] } :
            n \in 0..MaxFactorBars }

\* the configurations of the factor specification
FactorConfigs ==
    {SurgeFactorOf(c) : c \in
       {[bar_freq |-> "1m", threshold |-> <<1, 2>>],
        [bar_freq |-> "1m", threshold |-> <<1, 1>>, neutralize |-> FALSE],
        [bar_freq |-> "1m", threshold |-> <<1, 2>>, neutralize |-> FALSE,
         intraday_stat |-> "max"],
        [bar_freq |-> "1m", threshold |-> <<1, 2>>, is_abs |-> TRUE,
         intraday_stat |-> "min"],
        [bar_freq |-> "1m", threshold |-> <<1, 2>>,
         factor_type |-> "surge_vol", surge_window |-> 2],
        [bar_freq |-> "1m", threshold |-> <<1, 2>>,
         factor_type |-> "surge_vol", surge_window |-> 2,
         price_type |-> Some("close"), intraday_stat |-> "max",
         neutralize |-> FALSE, is_abs |-> TRUE],
        [bar_freq |-> "1m", threshold |-> <<1, 2>>, output_freq |-> "M10",
         m10_method |-> "rolling", lookback_bars |-> 2,
         neutralize |-> FALSE],
        [bar_freq |-> "1m", threshold |-> <<1, 2>>, output_freq |-> "M10",
         m10_method |-> "rolling", lookback_bars |-> 2],
        [bar_freq |-> "1m", threshold |-> <<1, 2>>, output_freq |-> "M10",
         m10_method |-> "same_time", lookback_days |-> 1,
         factor_type |-> "surge_vol"]}}

InitFactor ==
    /\ freq = "1m"
    /\ NothingLoaded
    /\ pc = "bars"
    /\ raw_trade = <<>>
    /\ raw_snap = <<>>
    /\ cancel_agg = <<>>
    /\ NoCancelRun
    /\ NoSinkRun
    /\ bar_df \in FactorFrames
    /\ surge_cfg \in FactorConfigs

\* SurgeFactor.calculate, steps 3 and 4, and the exception of step 2
AggregateFactor ==
    /\ pc = "surge"
    /\ factor_out' \in
          (IF surge_out.error # "" THEN {surge_out}
           ELSE {with_factor_name(out, surge_cfg) :
                   out \in aggregate_factor(surge_out.rows, surge_cfg)})
    /\ pc' = "factor"
    /\ UNCHANGED <<freq, filter_valid, tradeVars, snapVars, cancelVars,
                   bar_df, surge_cfg, surge_out, engineVars, sinkVars>>

NextFactor ==
    \/ IdentifySurgeEod
    \/ IdentifySurgeM10SameTime
    \/ IdentifySurgeM10Rolling
    \/ AggregateFactor

SpecFactor == InitFactor /\ [][NextFactor]_vars

-----------------------------------------------------------------------------
(* factor_engine.py *)

\* SurgeFactor._identify_surge: the frames, or the exception, it can give
identify_surge(bar, cfg) ==
    IF cfg.output_freq = "EOD" THEN {identify_surge_eod(bar, cfg)}
    ELSE IF cfg.m10_method = "same_time"
         THEN {identify_surge_m10_same_time(bar, cfg)}
    ELSE identify_surge_m10_rolling(bar, cfg)

\* config.get_bar_count_per_day of the bar_freq an instance keeps
get_bar_count_per_day(f) == Cardinality(get_timestamps(f))

\* SurgeFactor.get_lookback_days: 0 for EOD, H for M10 same-time and
\* ceil(k / bars per day) + 1 for M10 rolling
get_lookback_days(cfg) ==
    IF cfg.output_freq = "EOD" THEN 0
    ELSE IF cfg.m10_method = "same_time" THEN cfg.lookback_days
    ELSE LET n == get_bar_count_per_day(cfg.bar_freq)
         IN  ((cfg.lookback_bars + n - 1) \div n) + 1

\* SurgeFactor.calculate_single_day: the detector and the aggregator on
\* bar_data, then the rows of the settlement date
calculate_single_day(cfg, settlement_date, bar_data) ==
    UNION { IF surge.error # "" THEN {surge}
            ELSE { IF out.error # "" THEN out
                   ELSE Returned(SelectSeq(with_factor_name(out, cfg).rows,
                                   LAMBDA r : r.date = settlement_date)) :
                     out \in aggregate_factor(surge.rows, cfg) } :
            surge \in identify_surge(bar_data, cfg) }

\* an engine that takes the lookback of its first config
calculate_first_lookback(factor_configs) ==
    get_lookback_days(SurgeFactorOf(factor_configs[1]))

\* FactorEngine._calculate_max_lookback
calculate_max_lookback(factor_configs) ==
    SetMax({0} \cup {get_lookback_days(SurgeFactorOf(factor_configs[i])) :
                       i \in 1..Len(factor_configs)})

\* dux.cal.bizdays on the range lo-hi
bizdays(lo, hi) == [i \in 1..(hi - lo + 1) |-> lo + i - 1]

\* the date list a settlement-day task loads
date_list(settlement_date, max_lookback) ==
    bizdays(settlement_date - max_lookback, settlement_date)

\* self.factor_configs[0].get("bar_freq", "1m")
builder_freq(factor_configs) ==
    IF "bar_freq" \in DOMAIN factor_configs[1]
    THEN factor_configs[1].bar_freq ELSE "1m"

\* results[factor_name] = factor_df
put(results, name, df) ==
    [n \in (DOMAIN results) \cup {name} |->
       IF n = name THEN df ELSE results[n]]

\* the loop over the factor configs: what it has in results when it ends, and
\* the exception that ends it
RECURSIVE run_configs(_, _, _, _)
run_configs(configs, settlement_date, bar_data, results) ==
    IF configs = <<>> THEN {[error |-> "", results |-> results]}
    ELSE UNION {
           IF df.error # "" THEN {[error |-> df.error, results |-> results]}
           ELSE run_configs(Tail(configs), settlement_date, bar_data,
                            IF Len(df.rows) > 0
                            THEN put(results, df.rows[1].factor_name, df.rows)
                            ELSE results) :
           df \in calculate_single_day(SurgeFactorOf(configs[1]),
                                       settlement_date, bar_data) }

\* a task that returns what it has computed when a factor fails
settlement_day_partial(run) == run.results

\* the try block of _calculate_single_settlement_day: its results, and the
\* empty dict when an exception ends it
settlement_day_result(run) ==
    IF run.error # "" THEN <<>> ELSE run.results

\* the future of a submitted settlement date
Submitted(settlement_date) ==
    [date |-> settlement_date, state |-> "submitted", error |-> "",
     result |-> <<>>, bar_freq |-> "", bar_data |-> <<>>, loaded |-> <<>>]

\* FactorEngine._calculate_single_settlement_day on the tick store ticks: the
\* futures it can end in, each with the frequency of its BarBuilder, the bars
\* it built and the exception it caught
calculate_single_settlement_day(ticks, factor_configs, settlement_date) ==
    LET dates == date_list(settlement_date,
                           calculate_max_lookback(factor_configs))
        f == builder_freq(factor_configs)
        rows == SelectSeq(ticks.rows, LAMBDA r :
                            \E i \in 1..Len(dates) : r.date = dates[i])
        done(error, result, bar_data) ==
            [date |-> settlement_date, state |-> "finished",
             error |-> error, result |-> result, bar_freq |-> f,
             bar_data |-> bar_data, loaded |-> dates]
    IN  IF \E i \in 1..Len(dates) : dates[i] \notin ticks.files
        THEN {done("FileNotFoundError", <<>>, <<>>)}
        ELSE UNION {
               { done(run.error, settlement_day_result(run),
                      add_bar_returns(bars)) :
                   run \in run_configs(factor_configs, settlement_date,
                                       add_bar_returns(bars), <<>>) } :
               bars \in group_by_bar_trade(load_data(rows), f, TRUE) }

\* the key of merged_df.sort(sort_cols)
merge_key(r) ==
    <<r.symbol, r.date, IF "bar_time" \in DOMAIN r THEN r.bar_time ELSE 0>>

\* a merge that leaves the concatenated frame as it is
merge_unsorted(df) == {df}

\* the order of merged_df.sort(sort_cols)
merge_sort(df) ==
    { [i \in 1..Len(df) |-> df[p[i]]] :
        p \in { q \in Permutations(1..Len(df)) :
                  \A i \in 1..(Len(df) - 1) :
                     ~KeyLess(merge_key(df[q[i + 1]]), merge_key(df[q[i]])) } }

\* FactorEngine._merge_results: the maps it can return
merge_results(results) ==
    LET names == UNION {DOMAIN results[i] : i \in 1..Len(results)}
        dfs(n) == Map(SelectSeq(results, LAMBDA r : n \in DOMAIN r),
                      LAMBDA r : r[n])
        sorted(n) == merge_sort(concat(dfs(n)))
    IN  {m \in [names -> UNION {sorted(n) : n \in names}] :
           \A n \in names : m[n] \in sorted(n)}

\* what FactorEngine.calculate gives its caller: a map, or an exception
EngineReturned(results) == [error |-> "", results |-> results]
EngineRaised(exception) == [error |-> exception, results |-> <<>>]


\* the trade of the engine specification: one symbol, fills
EngineTick(d, tod, qty, px) ==
    [inst_id |-> TradeInsts[1], date |-> d, xts |-> datetime(d, tod),
     px |-> px, qty |-> qty, amt |-> px * qty, flag |-> 70, rid |-> 0]

\* the trade file of a day: absent, without a row, or with a small and a
\* large trade in two 1m bars of one 5m bar, on a quiet or on a busy day
DayKinds == {"missing", "empty", "low", "high"}
DayFile(d, kind) ==
    IF kind = "low"
    THEN <<EngineTick(d, Hmsm(10, 36, 30, 0), 1, 1000),
           EngineTick(d, Hmsm(10, 37, 30, 0), 10, 1010)>>
    ELSE IF kind = "high"
    THEN <<EngineTick(d, Hmsm(10, 36, 30, 0), 100, 1000),
           EngineTick(d, Hmsm(10, 37, 30, 0), 1000, 1010)>>
    ELSE <<>>

\* the business days of the calendar, and those that are settlement dates
EngineDays == 0..MaxEngineDays
SettlementDays == 1..MaxEngineDays

\* the tick stores: the days that have a file and the rows of the files
EngineStores ==
    { [files |-> {d \in EngineDays : k[d] # "missing"},
       rows |-> concat([i \in 1..(MaxEngineDays + 1) |->
                          DayFile(i - 1, k[i - 1])])] :
        k \in {j \in [EngineDays -> DayKinds] : j[0] \in {"missing", "low"}} }

\* the factor_configs of the engines
EngineConfigs ==
    LET eod(f) == [bar_freq |-> f, threshold |-> <<1, 2>>,
                   neutralize |-> FALSE]
    IN  { <<[threshold |-> <<1, 2>>, neutralize |-> FALSE]>>,
          <<eod("1m"),
            [bar_freq |-> "1m", threshold |-> <<1, 2>>,
             output_freq |-> "M10", m10_method |-> "same_time",
             lookback_days |-> 1]>>,
          <<eod("1m"), eod("5m")>>,
          <<[bar_freq |-> "1m", threshold |-> <<1, 2>>,
             factor_type |-> "surge_vol"],
            eod("1m")>>,
          <<[bar_freq |-> "1m", threshold |-> <<1, 2>>,
             factor_type |-> "surge_vol", surge_window |-> 2],
            eod("1m")>>,
          <<eod("1m"),
            [bar_freq |-> "1m", threshold |-> <<1, 2>>,
             output_freq |-> "M10", m10_method |-> "rolling",
             lookback_bars |-> 2, neutralize |-> FALSE]>>,
          <<[bar_freq |-> "10m", threshold |-> <<1, 2>>,
             output_freq |-> "M10", m10_method |-> "rolling",
             lookback_bars |-> 25]>> }

\* the settlement_dates arguments: no list, the empty list, one date, two
\* dates
EngineDates ==
    {Null, Some(<<>>)}
      \cup {Some(<<d>>) : d \in SettlementDays}
      \cup {Some(<<p[1], p[2]>>) :
              p \in {q \in SettlementDays \X SettlementDays : q[1] < q[2]}}

\* the arguments of calculate: a list of dates, a range, or neither
EngineArgs ==
    {[dates |-> ds, range |-> Null] : ds \in EngineDates}
      \cup {[dates |-> Null, range |-> Some(<<1, 2>>)]}

InitEngine ==
    /\ freq = "1m"
    /\ filter_valid = TRUE
    /\ trade_lf = <<>> /\ labeled = <<>> /\ trade_bars = <<>>
    /\ generic_bars = <<>> /\ snap_lf = <<>> /\ snap_sorted = <<>>
    /\ snap_bars = <<>> /\ cancel_out = <<>>
    /\ surge_out = Returned(<<>>) /\ factor_out = Returned(<<>>)
    /\ raw_trade = <<>> /\ raw_snap = <<>>
    /\ NoCancelNoSurge
    /\ pc = "engine"
    /\ engine_cfgs \in EngineConfigs
    /\ store \in EngineStores
    /\ call_args \in EngineArgs
    /\ tasks = <<>>
    /\ all_results = <<>>
    /\ engine_out = EngineReturned(<<>>)

\* FactorEngine.calculate up to the submission of the tasks
Calculate ==
    /\ pc = "engine"
    /\ LET settlement_dates ==
             IF IsNull(call_args.dates) /\ ~IsNull(call_args.range)
             THEN Some(bizdays(Val(call_args.range)[1], Val(call_args.range)[2]))
             ELSE call_args.dates
       IN  IF IsNull(settlement_dates)
           THEN /\ engine_out' = EngineRaised("ValueError")
                /\ pc' = "raised"
                /\ UNCHANGED tasks
           ELSE IF Val(settlement_dates) = <<>>
           THEN /\ engine_out' = EngineRaised("IndexError")
                /\ pc' = "raised"
                /\ UNCHANGED tasks
           ELSE /\ tasks' = Map(Val(settlement_dates), Submitted)
                /\ pc' = "pool"
                /\ UNCHANGED engine_out
    /\ UNCHANGED <<freq, filter_valid, tradeVars, snapVars, cancelVars,
                   surgeVars, sinkVars, engine_cfgs, store, call_args, all_results>>

\* a worker thread runs the task of one settlement date
RunTask(i) ==
    /\ pc = "pool"
    /\ tasks[i].state = "submitted"
    /\ \E task \in calculate_single_settlement_day(store, engine_cfgs,
                                                   tasks[i].date) :
          tasks' = [tasks EXCEPT ![i] = task]
    /\ UNCHANGED <<pc, freq, filter_valid, tradeVars, snapVars, cancelVars,
                   surgeVars, sinkVars, engine_cfgs, store, call_args, all_results,
                   engine_out>>

\* as_completed yields a finished future: its result joins all_results unless
\* it is the empty dict
Collect(i) ==
    /\ pc = "pool"
    /\ tasks[i].state = "finished"
    /\ tasks' = [tasks EXCEPT ![i].state = "collected"]
    /\ all_results' = IF tasks[i].result # <<>>
                      THEN Append(all_results, tasks[i].result)
                      ELSE all_results
    /\ UNCHANGED <<pc, freq, filter_valid, tradeVars, snapVars, cancelVars,
                   surgeVars, sinkVars, engine_cfgs, store, call_args, engine_out>>

\* FactorEngine.calculate after the pool: the merge and the return
Merge ==
    /\ pc = "pool"
    /\ \A i \in 1..Len(tasks) : tasks[i].state = "collected"
    /\ \E m \in merge_results(all_results) : engine_out' = EngineReturned(m)
    /\ pc' = "returned"
    /\ UNCHANGED <<freq, filter_valid, tradeVars, snapVars, cancelVars,
                   surgeVars, sinkVars, engine_cfgs, store, call_args, tasks, all_results>>

NextEngine ==
    \/ Calculate
    \/ \E i \in 1..Len(tasks) : RunTask(i)
    \/ \E i \in 1..Len(tasks) : Collect(i)
    \/ Merge

SpecEngine == InitEngine /\ [][NextEngine]_vars

InitTrade ==
    /\ freq \in {"5m", "10m"}
    /\ NothingLoaded
    /\ TradeInput(AggFrames)

NextTrade == LoadTrade \/ GroupByBarTrade

SpecTrade == InitTrade /\ [][NextTrade]_vars

NextTime ==
    \/ LoadTrade
    \/ AddBarTime
    \/ GroupByBarTrade
    \/ GroupByBar
    \/ LoadSnap
    \/ GroupByBarSnap

SpecTime == InitTime /\ [][NextTime]_vars

-----------------------------------------------------------------------------
(* high_freq_cancel_M10.py: the cancel-ratio driver.  A factor matrix is the *)
(* record of its index, its columns and its cells; a missing cell is null.   *)
(* A duration is a number of milliseconds.                                   *)

\* the tick files of one date: a kind and an exchange
TickFiles ==
    {<<"trade", "SH">>, <<"quote", "SH">>,
     <<"trade", "SZ">>, <<"quote", "SZ">>}

factor_names ==
    <<"hf_cancel_cnt_5_30", "hf_cancel_cnt_5_60",
      "hf_cancel_qty_5_30", "hf_cancel_qty_5_60">>

\* the cancel records of an exchange, from quote at SH and from trade at SZ
cancels_of(exchange, trade, quote) ==
    IF exchange = "SH"
      THEN Map(SelectSeq(quote, LAMBDA r :
                           r.ty = 68 /\ dt_time(r.xts) >= Hms(9, 30, 0)),
               LAMBDA r : [inst_id |-> r.inst_id, ch |-> r.ch,
                           order_no |-> r.order_no, xts_cancel |-> r.xts,
                           qty |-> r.qty])
      ELSE Map(SelectSeq(trade, LAMBDA r :
                           r.flag = 52 /\ dt_time(r.xts) >= Hms(9, 30, 0)),
               LAMBDA r : [inst_id |-> r.inst_id, ch |-> r.ch,
                           order_no |-> IF r.an >= r.bn THEN r.an ELSE r.bn,
                           xts_cancel |-> r.xts, qty |-> r.qty])

\* the distinct orders of an exchange
orders_of(exchange, quote) ==
    LET rows == IF exchange = "SH"
                  THEN SelectSeq(quote, LAMBDA r : r.ty # 68)
                  ELSE quote
    IN  { [inst_id |-> rows[i].inst_id, ch |-> rows[i].ch,
           order_no |-> rows[i].order_no, xts_new |-> rows[i].xts] :
          i \in 1..Len(rows) }

\* the life of a cancelled order, without the noon break when it spans it
life_us(xts_new, xts_cancel) ==
    IF dt_time(xts_new) < Hms(11, 30, 0) /\ dt_time(xts_cancel) >= Hms(13, 0, 0)
      THEN (xts_cancel - xts_new) - 5400000
      ELSE xts_cancel - xts_new

\* the cancels joined to their orders; a cancel without an order is dropped
cancel_lives(cancels, orders) ==
    concat(Map(cancels, LAMBDA c :
        Map(SetToSeq({o \in orders : /\ o.inst_id = c.inst_id
                                     /\ o.ch = c.ch
                                     /\ o.order_no = c.order_no}),
            LAMBDA o : [inst_id |-> c.inst_id, xts_cancel |-> c.xts_cancel,
                        qty |-> c.qty,
                        life_us |-> life_us(o.xts_new, c.xts_cancel)])))

\* group_by_dynamic(every = "10m", label = "right", closed = "left"): the
\* label of the window [g, g + 10m) that holds x
cancel_window(x) == x - (x % Hms(0, 10, 0)) + Hms(0, 10, 0)

\* the ratio num / (den + 1e-6)
hf_ratio(num, den) == Ratio(num * 1000000, den * 1000000 + 1)

\* the aggregate of the cancels of one instrument and window
cancel_agg_row(rows, inst_id, label) ==
    LET g == SelectSeq(rows, LAMBDA r : /\ r.inst_id = inst_id
                                        /\ cancel_window(r.xts_cancel) = label)
        C(us) == Len(SelectSeq(g, LAMBDA r : r.life_us <= us))
        V(us) == SumSeq(Map(g, LAMBDA r : IF r.life_us <= us THEN r.qty ELSE 0))
    IN  [inst_id |-> inst_id, xts_cancel |-> label,
         hf_cancel_cnt_5_30 |-> hf_ratio(C(5000), C(30000)),
         hf_cancel_cnt_5_60 |-> hf_ratio(C(5000), C(60000)),
         hf_cancel_qty_5_30 |-> hf_ratio(V(5000), V(30000)),
         hf_cancel_qty_5_60 |-> hf_ratio(V(5000), V(60000))]

\* agg: one row for every instrument and window that holds a cancel
cancel_group_by_dynamic(rows) ==
    SetToSeq({ cancel_agg_row(rows, rows[i].inst_id,
                              cancel_window(rows[i].xts_cancel)) :
               i \in 1..Len(rows) })

\* a driver that keeps the 13:10 rows of the aggregate as they are
keep_1310(agg) == agg

\* the 13:10 rows are dropped and the 11:30 rows, if any, copied to 13:10
fill_1310(agg) ==
    LET agg_no_1310 ==
            SelectSeq(agg, LAMBDA r : dt_time(r.xts_cancel) # Hms(13, 10, 0))
        agg_1130 ==
            SelectSeq(agg, LAMBDA r : dt_time(r.xts_cancel) = Hms(11, 30, 0))
    IN  IF Len(agg_1130) > 0
          THEN agg_no_1310 \o
               Map(agg_1130, LAMBDA r :
                     [r EXCEPT !.xts_cancel = r.xts_cancel + 6000 * 1000])
          ELSE agg_no_1310

\* the filter of the rows to the two sessions of the M10 grid
cancel_in_sessions(agg) ==
    SelectSeq(agg, LAMBDA r :
        \/ /\ dt_time(r.xts_cancel) >= Hms(9, 40, 0)
           /\ dt_time(r.xts_cancel) <= Hms(11, 30, 0)
        \/ /\ dt_time(r.xts_cancel) >= Hms(13, 10, 0)
           /\ dt_time(r.xts_cancel) <= Hms(15, 0, 0))

\* the strings of a set in ascending order
RECURSIVE sorted_strings(_)
sorted_strings(S) ==
    IF S = {} THEN <<>>
    ELSE LET m == CHOOSE k \in S : \A j \in S \ {k} : StrLess(k, j)
         IN  <<m>> \o sorted_strings(S \ {m})

\* a pivot that keeps the index values in their order of first appearance
pivot_as_read(df, index, columns, values) ==
    LET seen == {i \in 1..Len(df) :
                   \A j \in 1..(i - 1) : df[j][index] # df[i][index]}
        idx == Map(sorted_dates(seen), LAMBDA i : df[i][index])
        cols == sorted_strings({df[i][columns] : i \in 1..Len(df)})
    IN  [index |-> idx, columns |-> cols,
         cell |-> [k \in {<<idx[i], cols[j]>> :
                            i \in 1..Len(idx), j \in 1..Len(cols)} |->
                     LET at == {i \in 1..Len(df) : /\ df[i][index] = k[1]
                                                   /\ df[i][columns] = k[2]}
                     IN  IF at = {} THEN Null
                         ELSE df[CHOOSE i \in at : TRUE][values]]]

\* DataFrame.pivot(index, columns, values).sort_index() of a frame without
\* two rows of the same index and column: the index and the columns are the
\* distinct values in ascending order, a cell without a row is missing, as is
\* the cell of a null value
pivot(df, index, columns, values) ==
    LET idx == sorted_dates({df[i][index] : i \in 1..Len(df)})
        cols == sorted_strings({df[i][columns] : i \in 1..Len(df)})
    IN  [index |-> idx, columns |-> cols,
         cell |-> [k \in {<<idx[i], cols[j]>> :
                            i \in 1..Len(idx), j \in 1..Len(cols)} |->
                     LET at == {i \in 1..Len(df) : /\ df[i][index] = k[1]
                                                   /\ df[i][columns] = k[2]}
                     IN  IF at = {} THEN Null
                         ELSE df[CHOOSE i \in at : TRUE][values]]]

\* DataFrame.pivot raises when two rows have the same index and column
pivot_raises(df, index, columns) ==
    \E i, j \in 1..Len(df) :
        i # j /\ df[i][index] = df[j][index] /\ df[i][columns] = df[j][columns]

\* the pivot of the aggregate on one factor; the ratios are never null
cancel_pivot(agg, fname) ==
    pivot(Map(agg, LAMBDA r : [r EXCEPT ![fname] = Some(r[fname])]),
          "xts_cancel", "symbol", fname)

\* pd.date_range(start, end, freq = "10T")
date_range(start, end) ==
    [i \in 1..((end - start) \div Hms(0, 10, 0) + 1) |->
       start + (i - 1) * Hms(0, 10, 0)]

full_index(date) ==
    date_range(datetime(date, Hms(9, 40, 0)), datetime(date, Hms(11, 30, 0)))
      \o date_range(datetime(date, Hms(13, 10, 0)),
                    datetime(date, Hms(15, 0, 0)))

\* DataFrame.reindex(index): the rows of the new index, missing where new
reindex(df, index) ==
    [index |-> index, columns |-> df.columns,
     cell |-> [k \in {<<index[i], df.columns[j]>> :
                        i \in 1..Len(index), j \in 1..Len(df.columns)} |->
                 IF k \in DOMAIN df.cell THEN df.cell[k] ELSE Null]]

\* the matrix is given the full index when it has fewer than 24 rows
cancel_full_index(df, date) ==
    IF Len(df.index) < 24 THEN reindex(df, full_index(date)) ELSE df

\* high_freq_cancel_m10_single_mkt, after the two files are read
single_mkt(exchange, date, trade, quote) ==
    LET df == cancel_lives(cancels_of(exchange, trade, quote),
                           orders_of(exchange, quote))
        agg == cancel_in_sessions(cancel_add_exchange_suffix(
                   fill_1310(cancel_group_by_dynamic(df))))
    IN  [n \in {factor_names[i] : i \in 1..Len(factor_names)} |->
           cancel_full_index(cancel_pivot(agg, n), date)]

\* pd.concat([df_sh, df_sz], axis = 1).sort_index(axis = 1); the two
\* exchanges hold different instruments
concat_columns(df_sh, df_sz) ==
    LET index == sorted_dates({df_sh.index[i] : i \in 1..Len(df_sh.index)}
                   \cup {df_sz.index[i] : i \in 1..Len(df_sz.index)})
        columns ==
            sorted_strings({df_sh.columns[i] : i \in 1..Len(df_sh.columns)}
              \cup {df_sz.columns[i] : i \in 1..Len(df_sz.columns)})
    IN  [index |-> index, columns |-> columns,
         cell |-> [k \in {<<index[i], columns[j]>> :
                            i \in 1..Len(index), j \in 1..Len(columns)} |->
                     IF k \in DOMAIN df_sh.cell THEN df_sh.cell[k]
                     ELSE IF k \in DOMAIN df_sz.cell THEN df_sz.cell[k]
                     ELSE Null]]

\* check_tick_files_exist: the files whose absence skips the date
required_paths == {<<"trade", "SH">>, <<"quote", "SZ">>, <<"trade", "SZ">>}

missing_files == {f \in required_paths : IsNull(tick_files[f])}

\* the run of the driver: the dictionaries of the two exchanges, what
\* high_freq_cancel_m10 returned (null is None), the factors saved and the
\* exception raised
CancelRun(sh, sz, returned, saved, error) ==
    [sh |-> sh, sz |-> sz, returned |-> returned, saved |-> saved,
     error |-> error]

\* the date of the cancel specification: the first day after day 0
CancelDate == SetMin(SettlementDays)

\* a cancelled order: the instrument, the order number, the times of the
\* order and of its cancel, the quantity; an orphan has no order record
CancelEvent(inst_id, order_no, new, cancel, qty, orphan) ==
    [inst_id |-> inst_id, order_no |-> order_no,
     xts_new |-> datetime(CancelDate, new),
     xts_cancel |-> datetime(CancelDate, cancel), qty |-> qty,
     orphan |-> orphan]

CancelInstA == <<"6", "0", "0", "0", "0", "0">>
CancelInstB == <<"6", "8", "8", "0", "0", "1">>
CancelInstC == <<"9", "0", "0", "9", "0", "1">>
CancelInstD == <<"1">>

\* the cancels of the Shanghai files: before 09:30, in the first window, two
\* in the window of 11:30, two in the window of 13:10 (one of an order of the
\* morning), in the windows of 13:20 and 15:00, at 15:00:00 and at 11:30:00,
\* of an instrument that gets no suffix, and one without an order
CancelCatalogue ==
    { CancelEvent(CancelInstA, 1, Hms(9, 29, 50), Hms(9, 29, 59), 100, FALSE),
      CancelEvent(CancelInstA, 2, Hms(9, 29, 0), Hms(9, 30, 0), 100, FALSE),
      CancelEvent(CancelInstA, 3, Hms(11, 24, 58), Hms(11, 25, 0), 200, FALSE),
      CancelEvent(CancelInstB, 4, Hms(11, 29, 40), Hms(11, 29, 59), 300, FALSE),
      CancelEvent(CancelInstA, 5, Hms(11, 29, 0), Hms(13, 5, 0), 100, FALSE),
      CancelEvent(CancelInstB, 6, Hms(13, 4, 0), Hms(13, 5, 0), 100, FALSE),
      CancelEvent(CancelInstA, 7, Hms(13, 14, 59), Hms(13, 15, 0), 100, FALSE),
      CancelEvent(CancelInstA, 8, Hms(14, 59, 0), Hms(15, 0, 0), 100, FALSE),
      CancelEvent(CancelInstB, 9, Hms(11, 29, 59), Hms(11, 30, 0), 100, FALSE),
      CancelEvent(CancelInstC, 10, Hms(10, 0, 0), Hms(10, 0, 1), 100, FALSE),
      CancelEvent(CancelInstA, 11, Hms(10, 4, 0), Hms(10, 5, 0), 100, TRUE),
      CancelEvent(CancelInstA, 12, Hms(14, 59, 58), Hms(14, 59, 59), 100,
                  FALSE) }

\* a cancel of the first instrument in each of the 24 windows of the grid,
\* one second after the window opens and ten seconds after its order
FullDay ==
    { CancelEvent(CancelInstA, 100 + i,
                  dt_time(full_index(CancelDate)[i]) - Hms(0, 10, 9),
                  dt_time(full_index(CancelDate)[i]) - Hms(0, 9, 59), 100,
                  FALSE) : i \in 1..24 }

\* the cancels of the Shenzhen files
CancelsSZ ==
    { {},
      {CancelEvent(CancelInstD, 1, Hms(11, 24, 0), Hms(11, 25, 0), 100,
                   FALSE)} }

\* quote/SH: the order (ty 65) and the cancel (ty 68) of every event
QuoteSH(events) ==
    concat(Map(SetToSeq(events), LAMBDA e :
        (IF e.orphan THEN <<>>
         ELSE <<[inst_id |-> e.inst_id, ch |-> 1, order_no |-> e.order_no,
                 xts |-> e.xts_new, ty |-> 65, qty |-> e.qty]>>)
        \o <<[inst_id |-> e.inst_id, ch |-> 1, order_no |-> e.order_no,
              xts |-> e.xts_cancel, ty |-> 68, qty |-> e.qty]>>))

\* quote/SZ: the order of every event
QuoteSZ(events) ==
    Map(SetToSeq({e \in events : ~e.orphan}), LAMBDA e :
        [inst_id |-> e.inst_id, ch |-> 1, order_no |-> e.order_no,
         xts |-> e.xts_new])

\* trade/SZ: the cancel (flag 52) of every event
TradeSZ(events) ==
    Map(SetToSeq(events), LAMBDA e :
        [inst_id |-> e.inst_id, ch |-> 1, an |-> 0, bn |-> e.order_no,
         xts |-> e.xts_cancel, qty |-> e.qty, flag |-> 52])

\* the files of the date: those present, with the rows of the events
TickStore(present, sh, sz) ==
    [f \in TickFiles |->
       IF f \notin present THEN Null
       ELSE IF f = <<"quote", "SH">> THEN Some(QuoteSH(sh))
       ELSE IF f = <<"quote", "SZ">> THEN Some(QuoteSZ(sz))
       ELSE IF f = <<"trade", "SZ">> THEN Some(TradeSZ(sz))
       ELSE Some(<<>>)]

InitCancel ==
    /\ freq = "10m"
    /\ NothingLoaded
    /\ pc = "cancel_main"
    /\ raw_trade = <<>>
    /\ raw_snap = <<>>
    /\ cancel_agg = <<>>
    /\ bar_df = <<>>
    /\ surge_cfg = NoSurge
    /\ \E present \in SUBSET TickFiles, base \in {{}, FullDay},
          sh \in SUBSET CancelCatalogue, sz \in CancelsSZ :
         /\ Cardinality(sh) <= MaxCancels
         /\ tick_files = TickStore(present, base \cup sh, sz)
    /\ cancel_run = CancelRun(Null, Null, Null, <<>>, "")
    /\ NoSinkRun

\* the wrapper of check_tick_files_exist: the date is skipped, and None
\* returned, when a required file is missing
CancelCheckFiles ==
    /\ pc = "cancel_main"
    /\ IF missing_files = {}
         THEN pc' = "cancel_SH" /\ UNCHANGED cancel_run
         ELSE /\ pc' = "cancel_returned"
              /\ cancel_run' = [cancel_run EXCEPT !.returned = Some(Null)]
    /\ UNCHANGED <<freq, filter_valid, tradeVars, snapVars, cancel_agg,
                   cancel_out, tick_files, surgeVars, engineVars, sinkVars>>

\* high_freq_cancel_m10: the call of high_freq_cancel_m10_single_mkt for an
\* exchange; pl.read_parquet raises when the file is absent
CancelSingleMkt(exchange) ==
    /\ pc = "cancel_" \o exchange
    /\ LET trade == tick_files[<<"trade", exchange>>]
           quote == tick_files[<<"quote", exchange>>]
       IN  IF IsNull(trade) \/ IsNull(quote)
             THEN /\ pc' = "cancel_raised"
                  /\ cancel_run' =
                       [cancel_run EXCEPT !.error = "FileNotFoundError"]
             ELSE LET out == Some(single_mkt(exchange, CancelDate,
                                             Val(trade), Val(quote)))
                  IN  IF exchange = "SH"
                        THEN /\ pc' = "cancel_SZ"
                             /\ cancel_run' = [cancel_run EXCEPT !.sh = out]
                        ELSE /\ pc' = "cancel_merge"
                             /\ cancel_run' = [cancel_run EXCEPT !.sz = out]
    /\ UNCHANGED <<freq, filter_valid, tradeVars, snapVars, cancel_agg,
                   cancel_out, tick_files, surgeVars, engineVars, sinkVars>>

\* high_freq_cancel_m10: the factors of the two exchanges side by side
CancelMerge ==
    /\ pc = "cancel_merge"
    /\ pc' = "cancel_returned"
    /\ cancel_run' =
         [cancel_run EXCEPT !.returned =
            Some(Some([n \in DOMAIN Val(cancel_run.sh) |->
                         concat_columns(Val(cancel_run.sh)[n],
                                        Val(cancel_run.sz)[n])]))]
    /\ UNCHANGED <<freq, filter_valid, tradeVars, snapVars, cancel_agg,
                   cancel_out, tick_files, surgeVars, engineVars, sinkVars>>

\* __main__: every factor of the returned dictionary is saved; None has no
\* items
CancelSave ==
    /\ pc = "cancel_returned"
    /\ IF IsNull(Val(cancel_run.returned))
         THEN /\ pc' = "cancel_raised"
              /\ cancel_run' = [cancel_run EXCEPT !.error = "AttributeError"]
         ELSE /\ pc' = "cancel_saved"
              /\ cancel_run' = [cancel_run EXCEPT !.saved = factor_names]
    /\ UNCHANGED <<freq, filter_valid, tradeVars, snapVars, cancel_agg,
                   cancel_out, tick_files, surgeVars, engineVars, sinkVars>>

NextCancel ==
    \/ CancelCheckFiles
    \/ \E exchange \in {"SH", "SZ"} : CancelSingleMkt(exchange)
    \/ CancelMerge
    \/ CancelSave

SpecCancel == InitCancel /\ [][NextCancel]_vars

-----------------------------------------------------------------------------
(* legion_saver.py.  A factor name is the sequence of its parts, which "_"   *)
(* joins; no part of a name of the model holds a part of another.            *)

\* "_eod_" in name_lower: eod is a part between two others
has_eod(factor_name) ==
    \E i \in 2..(Len(factor_name) - 1) : factor_name[i] = "eod"

\* part in name_lower
has_part(factor_name, part) ==
    \E i \in 1..Len(factor_name) : factor_name[i] = part

\* save_factors_to_legion: the namespace a factor is saved in
namespace_of(factor_name) ==
    IF has_eod(factor_name) THEN "EOD"
    ELSE IF has_part(factor_name, "sametime") THEN "M10/Same_Time"
    ELSE IF has_part(factor_name, "rolling") THEN "M10/Rolling"
    ELSE "M10/Same_Time"

\* the order in which the factors are saved: namespace by namespace, those of
\* a namespace in the order of the dictionary
save_order(items) ==
    SelectSeq(items, LAMBDA n : namespace_of(n) = "EOD")
      \o SelectSeq(items, LAMBDA n : namespace_of(n) = "M10/Same_Time")
      \o SelectSeq(items, LAMBDA n : namespace_of(n) = "M10/Rolling")

\* the long form of a wide matrix: one row for every cell
long(wide) ==
    concat([j \in 1..Len(wide.columns) |->
              [i \in 1..Len(wide.index) |->
                 [bar_time |-> wide.index[i], symbol |-> wide.columns[j],
                  factor_value |->
                      wide.cell[<<wide.index[i], wide.columns[j]>>]]]])

\* the run of save_factors_to_legion: its argument, the factors still to be
\* saved, the matrices handed to dk2lg with the outcome of the call, and the
\* exception that left the function
SaveRun(results, pending, log, error) ==
    [results |-> results, pending |-> pending, log |-> log, error |-> error]

\* a saver whose except clause raises the exception of dk2lg again
dk2lg_raises(run, entry) ==
    [run EXCEPT !.pending = <<>>, !.log = Append(@, entry),
                !.error = "Exception"]

\* the except clause of the save: the failure is printed, the next factor
\* is saved
dk2lg_caught(run, entry) ==
    [run EXCEPT !.pending = Tail(@), !.log = Append(@, entry)]

\* _save_single_factor_eod and _save_single_factor_m10 of the first pending
\* factor; ok tells whether dk2lg returns
save_single_factor(run, ok) ==
    LET factor_name == run.pending[1]
        df == run.results[factor_name]
        entry == [factor_name |-> factor_name,
                  namespace |-> namespace_of(factor_name),
                  wide |-> pivot(df, "bar_time", "symbol", "factor_value"),
                  ok |-> ok]
    IN  IF df = <<>>
          THEN [run EXCEPT !.pending = <<>>, !.error = "IndexError"]
        ELSE IF pivot_raises(df, "bar_time", "symbol")
          THEN [run EXCEPT !.pending = <<>>, !.error = "ValueError"]
        ELSE IF ok
          THEN [run EXCEPT !.pending = Tail(@), !.log = Append(@, entry)]
        ELSE dk2lg_caught(run, entry)

\* the factor names of the saver specification: one of each namespace and one
\* that no namespace recognises
SaverNames ==
    { <<"surge_ret", "m1", "eod", "allday", "mean">>,
      <<"surge_ret", "m1", "m10", "sametime", "mean">>,
      <<"surge_ret", "m1", "m10", "rolling", "mean">>,
      <<"hf_cancel_cnt_5_30">> }

\* the rows of a factor frame at the bar-times of its output frequency: two
\* days at 15:00 for EOD, 09:40 and 09:50 of a day for M10
SaverTimes(factor_name) ==
    IF has_eod(factor_name)
      THEN <<datetime(1, Hms(15, 0, 0)), datetime(2, Hms(15, 0, 0))>>
      ELSE <<datetime(1, Hms(9, 40, 0)), datetime(1, Hms(9, 50, 0))>>

SaverRow(factor_name, s, t, value) ==
    [symbol |-> SurgeSymbols[s], date |-> dt_date(SaverTimes(factor_name)[t]),
     bar_time |-> SaverTimes(factor_name)[t], factor_value |-> value,
     factor_name |-> factor_name]

\* the frames of a factor, sorted by symbol, date and bar_time as the engine
\* returns them: every cell; the second time of the first symbol and the
\* first time of the second; one row without a value; a first time whose
\* values are all null
SaverFrames(n) ==
    { <<SaverRow(n, 1, 1, Some(11)), SaverRow(n, 1, 2, Some(12)),
        SaverRow(n, 2, 1, Some(21)), SaverRow(n, 2, 2, Some(22))>>,
      <<SaverRow(n, 1, 2, Some(12)), SaverRow(n, 2, 1, Some(21))>>,
      <<SaverRow(n, 2, 2, Null)>>,
      <<SaverRow(n, 1, 1, Null), SaverRow(n, 1, 2, Some(12)),
        SaverRow(n, 2, 1, Null)>> }

\* the dictionaries that are saved
SaverResults ==
    UNION { [names -> UNION {SaverFrames(n) : n \in SaverNames}] :
            names \in {S \in SUBSET SaverNames : Cardinality(S) <= MaxSaved} }

InitSaver ==
    /\ freq = "1m"
    /\ NothingLoaded
    /\ pc = "save"
    /\ raw_trade = <<>>
    /\ raw_snap = <<>>
    /\ cancel_agg = <<>>
    /\ NoCancelRun
    /\ bar_df = <<>>
    /\ surge_cfg = NoSurge
    /\ pool_run = <<>>
    /\ \E results \in SaverResults :
         /\ \A n \in DOMAIN results : results[n] \in SaverFrames(n)
         /\ save_run = SaveRun(results, <<>>, <<>>, "")

\* save_factors_to_legion: the factors are told apart by their names
SaveFactors ==
    /\ pc = "save"
    /\ \E items \in Orders(DOMAIN save_run.results) :
         save_run' = [save_run EXCEPT !.pending = save_order(items)]
    /\ pc' = "saving"
    /\ UNCHANGED <<freq, filter_valid, tradeVars, snapVars, cancelVars,
                   surgeVars, engineVars, pool_run>>

\* save_factors_to_legion: a turn of one of its three loops; dk2lg returns
\* or raises
SaveSingleFactor ==
    /\ pc = "saving"
    /\ save_run.pending # <<>>
    /\ \E ok \in BOOLEAN : save_run' = save_single_factor(save_run, ok)
    /\ pc' = IF save_run'.error # "" THEN "save_raised" ELSE "saving"
    /\ UNCHANGED <<freq, filter_valid, tradeVars, snapVars, cancelVars,
                   surgeVars, engineVars, pool_run>>

\* save_factors_to_legion returns
SaveReturn ==
    /\ pc = "saving"
    /\ save_run.pending = <<>>
    /\ pc' = "saved"
    /\ UNCHANGED <<freq, filter_valid, tradeVars, snapVars, cancelVars,
                   surgeVars, engineVars, sinkVars>>

NextSaver == SaveFactors \/ SaveSingleFactor \/ SaveReturn

SpecSaver == InitSaver /\ [][NextSaver]_vars

-----------------------------------------------------------------------------
(* factor_engine.py: the worker threads and the log sink.  A thread is at a  *)
(* statement of _calculate_single_settlement_day and is, or is not, inside   *)
(* the print of that statement.                                              *)

\* a thread at a statement, before or inside its print; config counts the
\* SurgeFactor instances made so far
At(stmt, config, writing) ==
    [stmt |-> stmt, config |-> config, writing |-> writing]

\* the threads that the pool is running
running(run) ==
    {t \in DOMAIN run.at : run.at[t].stmt \notin {"queued", "returned"}}

\* the threads inside a print
writers(run) == {t \in DOMAIN run.at : run.at[t].writing}

InitPool ==
    /\ freq = "1m"
    /\ NothingLoaded
    /\ pc = "pool_run"
    /\ raw_trade = <<>>
    /\ raw_snap = <<>>
    /\ cancel_agg = <<>>
    /\ NoCancelRun
    /\ bar_df = <<>>
    /\ surge_cfg = NoSurge
    /\ save_run = <<>>
    /\ \E n_workers \in 1..2, n_configs \in 1..2, n_dates \in 1..MaxPoolTasks :
         pool_run = [n_workers |-> n_workers, n_configs |-> n_configs,
                     lock |-> Null,
                     at |-> [t \in 1..n_dates |-> At("queued", 0, FALSE)]]

\* ThreadPoolExecutor: a free worker takes a submitted task
PoolStart(t) ==
    /\ pool_run.at[t].stmt = "queued"
    /\ Cardinality(running(pool_run)) < pool_run.n_workers
    /\ pool_run' = [pool_run EXCEPT !.at[t] = At("start", 0, FALSE)]
    /\ UNCHANGED <<pc, freq, filter_valid, tradeVars, snapVars, cancelVars,
                   surgeVars, engineVars, save_run>>

\* _safe_print of the start, completion or failure message: the lock is
\* taken and the print entered
SafePrintEnter(t) ==
    /\ pool_run.at[t].stmt \in {"start", "done", "failed"}
    /\ ~pool_run.at[t].writing
    /\ IsNull(pool_run.lock)
    /\ pool_run' = [pool_run EXCEPT !.lock = Some(t), !.at[t].writing = TRUE]
    /\ UNCHANGED <<pc, freq, filter_valid, tradeVars, snapVars, cancelVars,
                   surgeVars, engineVars, save_run>>

\* _safe_print: the print returns and the lock is released; after the start
\* message the data is loaded, which raises or not, and after the other two
\* the task returns
SafePrintLeave(t) ==
    /\ pool_run.at[t].stmt \in {"start", "done", "failed"}
    /\ pool_run.at[t].writing
    /\ \E next \in IF pool_run.at[t].stmt = "start"
                     THEN {At("config", 1, FALSE), At("failed", 0, FALSE)}
                     ELSE {At("returned", pool_run.at[t].config, FALSE)} :
         pool_run' = [pool_run EXCEPT !.lock = Null, !.at[t] = next]
    /\ UNCHANGED <<pc, freq, filter_valid, tradeVars, snapVars, cancelVars,
                   surgeVars, engineVars, save_run>>

\* SurgeFactor(**config): _validate_params enters its print
ValidatePrintEnter(t) ==
    /\ pool_run.at[t].stmt = "config"
    /\ ~pool_run.at[t].writing
    /\ pool_run' = [pool_run EXCEPT !.at[t].writing = TRUE]
    /\ UNCHANGED <<pc, freq, filter_valid, tradeVars, snapVars, cancelVars,
                   surgeVars, engineVars, save_run>>

\* _validate_params: the print returns; the next config follows, or the
\* completion message
ValidatePrintLeave(t) ==
    /\ pool_run.at[t].stmt = "config"
    /\ pool_run.at[t].writing
    /\ pool_run' =
         [pool_run EXCEPT !.at[t] =
            IF pool_run.at[t].config < pool_run.n_configs
              THEN At("config", pool_run.at[t].config + 1, FALSE)
              ELSE At("done", pool_run.at[t].config, FALSE)]
    /\ UNCHANGED <<pc, freq, filter_valid, tradeVars, snapVars, cancelVars,
                   surgeVars, engineVars, save_run>>

NextPool ==
    \E t \in DOMAIN pool_run.at :
        \/ PoolStart(t)
        \/ SafePrintEnter(t)
        \/ SafePrintLeave(t)
        \/ ValidatePrintEnter(t)
        \/ ValidatePrintLeave(t)

SpecPool == InitPool /\ [][NextPool]_vars

-----------------------------------------------------------------------------
(* Properties of the bar-time assignment and of the special sessions *)

\* the grid step of a frequency, in milliseconds
GridStep(f) ==
    CASE f = "1m" -> 60 * 1000 [] f = "5m" -> 5 * 60 * 1000
      [] f = "10m" -> 10 * 60 * 1000

OnGrid(x, f) == x % GridStep(f) = 0

Rows(df) == {df[i] : i \in 1..Len(df)}

\* C1: add_bar_time gives a tick on the grid of the frequency its own
\* timestamp, and any other tick the smallest grid point after it, so that a
\* bar covers (bar_time - f, bar_time]; one trade at 09:35:00.000 makes, at 5m,
\* the 09:35 bar with vol 100, amt 1000 and all four prices 10 and no 09:40
\* bar, and one trade at 09:35:00.001 makes the 09:40 bar.
C1_LeftOpenRightClosed ==
    /\ pc = "labeled" =>
         \A r \in Rows(labeled) :
            /\ OnGrid(r.xts, freq) => r.bar_time = r.xts
            /\ ~OnGrid(r.xts, freq) =>
                 /\ OnGrid(r.bar_time, freq)
                 /\ r.bar_time > r.xts
                 /\ r.bar_time - GridStep(freq) < r.xts
            /\ r.bar_time - GridStep(freq) < r.xts /\ r.xts <= r.bar_time
    /\ (pc = "trade_bars" /\ freq = "5m" /\ Len(raw_trade) = 1) =>
         LET r == raw_trade[1]
         IN  /\ dt_time(r.xts) = Hms(9, 35, 0) =>
                  /\ Len(trade_bars) = 1
                  /\ trade_bars[1].bar_time = datetime(r.date, Hms(9, 35, 0))
                  /\ trade_bars[1].vol = 100 /\ trade_bars[1].amt = 1000
                  /\ trade_bars[1].open = 10 /\ trade_bars[1].high = 10
                  /\ trade_bars[1].low = 10 /\ trade_bars[1].close = 10
             /\ dt_time(r.xts) = Hmsm(9, 35, 0, 1) =>
                  /\ Len(trade_bars) = 1
                  /\ trade_bars[1].bar_time = datetime(r.date, Hms(9, 40, 0))

\* a 5m labelling of a tick at 09:35:00.000 and of one at 09:35:00.001
C1_Witness ==
    /\ pc = "labeled" /\ freq = "5m" /\ Len(labeled) = 2
    /\ dt_time(labeled[1].xts) = Hms(9, 35, 0)
    /\ dt_time(labeled[1].bar_time) = Hms(9, 35, 0)
    /\ dt_time(labeled[2].xts) = Hmsm(9, 35, 0, 1)
    /\ dt_time(labeled[2].bar_time) = Hms(9, 40, 0)

\* the first valid bar-time of a frequency
FirstValidBar(f) ==
    CASE f = "1m" -> Hms(9, 31, 0) [] f = "5m" -> Hms(9, 35, 0)
      [] f = "10m" -> Hms(9, 40, 0)

InOpeningAuction(t) == Hms(9, 15, 0) <= t /\ t <= Hms(9, 30, 0)
InNoonBreak(t) == Hms(11, 30, 0) < t /\ t <= Hms(11, 32, 0)
InClosingAuction(t) == Hms(15, 0, 0) <= t /\ t <= Hms(15, 15, 0)
InSpecialSession(t) ==
    InOpeningAuction(t) \/ InNoonBreak(t) \/ InClosingAuction(t)

\* the time-of-day a special-session tick is rewritten to
AdjustTarget(t) ==
    IF InOpeningAuction(t) THEN Hms(9, 30, 1)
    ELSE IF InNoonBreak(t) THEN Hms(11, 29, 59)
    ELSE Hms(14, 59, 59)

\* the bar-time of day a special-session tick belongs to
SpecialBar(t, f) ==
    IF InOpeningAuction(t) THEN FirstValidBar(f)
    ELSE IF InNoonBreak(t) THEN Hms(11, 30, 0)
    ELSE Hms(15, 0, 0)

\* the ticks of the files that belong to a listed SH or SZ symbol
IsListed(r) ==
    loader_symbol_kept(loader_symbol(pad_start(r.inst_id, 6, "0")))

\* the trades of the files that are fills of a listed SH or SZ symbol
IsListedFill(r) == r.flag # 52 /\ IsListed(r)

\* C3: a tick of the opening auction [09:15, 09:30], of the start of the noon
\* break (11:30, 11:32] or of the closing auction [15:00, 15:15] is loaded
\* with its date unchanged and its time rewritten to 09:30:01, 11:29:59 or
\* 14:59:59, and it is counted in the first valid bar, the 11:30 bar or the
\* 15:00 bar of its date.
C3_SpecialSessions ==
  /\ \A i \in 1..Len(raw_snap) :
       LET r == raw_snap[i]
           t == dt_time(r.xts)
       IN  (InSpecialSession(t) /\ IsListed(r)) =>
             /\ pc \in {"loaded_snap", "snap_bars"} =>
                  \E l \in Rows(snap_lf) :
                     /\ l.rid = i
                     /\ l.date = r.date
                     /\ l.xts = datetime(r.date, AdjustTarget(t))
             /\ pc = "snap_bars" =>
                  \E b \in Rows(snap_bars) :
                     /\ b.symbol = loader_symbol(pad_start(r.inst_id, 6, "0"))
                     /\ b.date = r.date
                     /\ b.bar_time = datetime(r.date, SpecialBar(t, freq))
  /\ \A i \in 1..Len(raw_trade) :
       LET r == raw_trade[i]
           t == dt_time(r.xts)
           same == {j \in 1..Len(raw_trade) :
                      /\ raw_trade[j].inst_id = r.inst_id
                      /\ raw_trade[j].date = r.date
                      /\ IsListedFill(raw_trade[j])
                      /\ InSpecialSession(dt_time(raw_trade[j].xts))
                      /\ SpecialBar(dt_time(raw_trade[j].xts), freq)
                           = SpecialBar(t, freq)}
       IN  (InSpecialSession(t) /\ IsListedFill(r)) =>
             /\ pc \in {"loaded_trade", "trade_bars", "generic_bars"} =>
                  \E l \in Rows(trade_lf) :
                     /\ l.rid = i
                     /\ l.date = r.date
                     /\ l.xts = datetime(r.date, AdjustTarget(t))
             /\ pc = "trade_bars" =>
                  \E b \in Rows(trade_bars) :
                     /\ b.symbol = loader_symbol(pad_start(r.inst_id, 6, "0"))
                     /\ b.date = r.date
                     /\ b.bar_time = datetime(r.date, SpecialBar(t, freq))
                     /\ b.trade_count >= Cardinality(same)

\* bars built from an opening-auction tick and a closing-auction tick
C3_Witness ==
    /\ pc = "trade_bars" /\ filter_valid /\ Len(raw_trade) = 2
    /\ dt_time(raw_trade[1].xts) = Hms(9, 25, 30)
    /\ dt_time(raw_trade[2].xts) = Hms(15, 15, 0)
    /\ raw_trade[1].date = raw_trade[2].date
    /\ Len(trade_bars) = 2
    /\ dt_time(trade_bars[1].bar_time) = FirstValidBar(freq)
    /\ dt_time(trade_bars[2].bar_time) = Hms(15, 0, 0)

-----------------------------------------------------------------------------
(* Properties of the emitted bar-times *)

\* the bar_time and date columns of the bars emitted by the three group-bys
EmittedStamps ==
    {<<trade_bars[i].bar_time, trade_bars[i].date>> : i \in 1..Len(trade_bars)}
      \cup {<<generic_bars[i].bar_time, generic_bars[i].date>> :
              i \in 1..Len(generic_bars)}
      \cup {<<snap_bars[i].bar_time, snap_bars[i].date>> :
              i \in 1..Len(snap_bars)}

\* C2 as claimed: with filter_valid, every emitted bar has a time-of-day among
\* the enumerated valid bar-times of the frequency, of which there are 241 for
\* 1m, 48 for 5m and 24 for 10m, and the calendar date of its ticks.
C2_AsClaimed ==
    filter_valid =>
      \A b \in EmittedStamps :
         /\ dt_time(b[1]) \in VALID_BAR_TIMES(freq)
         /\ Cardinality(VALID_BAR_TIMES(freq))
              = (CASE freq = "1m" -> 241 [] freq = "5m" -> 48
                   [] freq = "10m" -> 24)
         /\ dt_date(b[1]) = b[2]

\* C2: with filter_valid, every emitted bar has a time-of-day among the
\* enumerated valid bar-times of the frequency, of which there are 240 for 1m,
\* 48 for 5m and 24 for 10m, and the calendar date of its ticks.
C2_ValidBarTimes ==
    filter_valid =>
      \A b \in EmittedStamps :
         /\ dt_time(b[1]) \in VALID_BAR_TIMES(freq)
         /\ Cardinality(VALID_BAR_TIMES(freq))
              = (CASE freq = "1m" -> 240 [] freq = "5m" -> 48
                   [] freq = "10m" -> 24)
         /\ dt_date(b[1]) = b[2]

\* 1m bars from which the bar of a trade stamped 13:00:00.000 was dropped
C2_Witness ==
    /\ pc = "trade_bars" /\ filter_valid /\ freq = "1m"
    /\ Len(trade_lf) = 2 /\ Len(trade_bars) = 1
    /\ \E r \in Rows(trade_lf) : dt_time(r.xts) = Hms(13, 0, 0)

-----------------------------------------------------------------------------
(* Properties of the trade bars *)

\* the right end of the window (g - f, g] of the grid that holds x
WindowEnd(x, f) == x + ((GridStep(f) - (x % GridStep(f))) % GridStep(f))

\* the loaded trades that are not cancels, and those of them in one window
Fills == SelectSeq(trade_lf, LAMBDA r : r.flag # 52)
FillsOf(sym, d, bt) ==
    SelectSeq(Fills, LAMBDA r :
                /\ r.symbol = sym /\ r.date = d
                /\ WindowEnd(r.xts, freq) = bt)

IsEmitted(bt) == ~filter_valid \/ dt_time(bt) \in VALID_BAR_TIMES(freq)

C6_PclsAndRet ==
    pc = "trade_bars" =>
      \A b \in Rows(trade_bars) :
         LET earlier == {q \in Rows(trade_bars) :
                           q.symbol = b.symbol /\ q.bar_time < b.bar_time}
             latest == {q \in earlier :
                          \A o \in earlier : o.bar_time <= q.bar_time}
         IN  /\ earlier = {} => IsNull(b.pcls)
             /\ earlier # {} =>
                  /\ ~IsNull(b.pcls)
                  /\ \A q \in latest : Val(b.pcls) = q.close
             /\ IsNull(b.ret) <=> (IsNull(b.pcls) \/ Val(b.pcls) <= 0)
             /\ ~IsNull(b.ret) =>
                  /\ Val(b.ret)[2] # 0
                  /\ Val(b.ret)[1] * Val(b.pcls)
                       = (b.close - Val(b.pcls)) * Val(b.ret)[2]

\* two symbols; one has a bar after a close of 0 and a bar on the next date
C6_Witness ==
    /\ pc = "trade_bars" /\ Len(trade_bars) = 3
    /\ trade_bars[1].symbol # trade_bars[2].symbol
    /\ trade_bars[2].symbol = trade_bars[3].symbol
    /\ trade_bars[2].date < trade_bars[3].date
    /\ IsNull(trade_bars[1].pcls) /\ IsNull(trade_bars[2].pcls)
    /\ trade_bars[3].pcls = Some(10) /\ trade_bars[3].close = 11
    /\ trade_bars[3].ret = Some(<<1, 10>>)

\* a bar whose pcls is 0 and whose ret is therefore null
C6_WitnessZero ==
    /\ pc = "trade_bars"
    /\ \E b \in Rows(trade_bars) : b.pcls = Some(0) /\ IsNull(b.ret)

-----------------------------------------------------------------------------
(* Properties of the symbol decoration *)

\* a code left-padded with zeros to six characters
ZeroPad6(code) ==
    IF Len(code) >= 6 THEN code
    ELSE [i \in 1..6 |->
            IF i <= 6 - Len(code) THEN "0" ELSE code[i - (6 - Len(code))]]

HasPrefix(code, p) ==
    Len(code) >= Len(p) /\ \A i \in 1..Len(p) : code[i] = p[i]

IsShanghai(code) == HasPrefix(code, <<"6", "0">>) \/ HasPrefix(code, <<"6", "8">>)
IsShenzhen(code) == HasPrefix(code, <<"0", "0">>) \/ HasPrefix(code, <<"3", "0">>)
IsBeijing(code) ==
    \/ HasPrefix(code, <<"8">>)
    \/ HasPrefix(code, <<"4", "3">>)
    \/ HasPrefix(code, <<"8", "7">>)

\* the suffix the three-market rule gives a padded code, <<>> for no market
MarketSuffix(code) ==
    IF IsShanghai(code) THEN <<".", "S", "H">>
    ELSE IF IsShenzhen(code) THEN <<".", "S", "Z">>
    ELSE IF IsBeijing(code) THEN <<".", "B", "J">>
    ELSE <<>>

\* out holds the rows of in that the rule sfx gives a market, each with its
\* padded code and its suffixed symbol, and no other row
Decorated(in, out, sfx(_)) ==
    /\ \A i \in 1..Len(in) :
          LET code == ZeroPad6(in[i].inst_id)
              kept == {r \in Rows(out) : r.rid = in[i].rid}
          IN  IF sfx(code) = <<>> THEN kept = {}
              ELSE /\ kept # {}
                   /\ \A r \in kept :
                         r.inst_id = code /\ r.symbol = code \o sfx(code)
    /\ Len(out) <= Len(in)

\* C4 as stated: the loader gives the codes of all three markets a symbol
C4_AsClaimed ==
    pc = "loaded_trade" => Decorated(raw_trade, trade_lf, MarketSuffix)

\* the suffix the loader gives a padded code: Shanghai and Shenzhen only
LoaderSuffix(code) ==
    IF IsShanghai(code) THEN <<".", "S", "H">>
    ELSE IF IsShenzhen(code) THEN <<".", "S", "Z">>
    ELSE <<>>

\* C4: the tick loader pads inst_id with zeros to six characters, gives the
\* symbol code.SH to the prefixes 60/68 and code.SZ to the prefixes 00/30, and
\* discards every other row, the prefixes 8/43/87 included; the decoration of
\* the cancel statistics also gives code.BJ to the prefixes 8/43/87 and
\* discards a row exactly when its padded code has none of the prefixes.
C4_SymbolDecoration ==
    /\ pc = "loaded_trade" => Decorated(raw_trade, trade_lf, LoaderSuffix)
    /\ pc = "cancel_out" => Decorated(cancel_agg, cancel_out, MarketSuffix)

\* the loader has padded the code 1 to 000001.SZ and discarded 830001
C4_Witness ==
    /\ pc = "loaded_trade" /\ Len(raw_trade) = 2 /\ Len(trade_lf) = 1
    /\ raw_trade[1].inst_id = <<"1">>
    /\ raw_trade[2].inst_id = <<"8", "3", "0", "0", "0", "1">>
    /\ trade_lf[1].symbol = <<"0", "0", "0", "0", "0", "1", ".", "S", "Z">>

-----------------------------------------------------------------------------
(* Properties of the snap bars *)

\* the loaded snapshots of a symbol, and those of them in one window
SnapsOf(sym) == {r \in Rows(snap_lf) : r.symbol = sym}
SnapsIn(sym, d, bt) ==
    {r \in SnapsOf(sym) : r.date = d /\ WindowEnd(r.xts, freq) = bt}

\* the snapshots of a symbol stamped before every snapshot of the window
SnapsBefore(sym, d, bt) ==
    {r \in SnapsOf(sym) : \A q \in SnapsIn(sym, d, bt) : r.xts < q.xts}

\* the latest of a set of snapshots: those no other one is stamped after
Latest(S) == {r \in S : \A q \in S : q.xts <= r.xts}

\* scenario S3: 600001 at 09:35 and at 09:40 of one day
IsS3(rows) ==
    /\ Len(rows) = 2
    /\ rows[1].inst_id = TradeInsts[1] /\ rows[2].inst_id = TradeInsts[1]
    /\ rows[1].date = rows[2].date
    /\ dt_time(rows[1].xts) = Hms(9, 35, 0)
    /\ dt_time(rows[2].xts) = Hms(9, 40, 0)
    /\ rows[1].qty = SnapKind1.qty /\ rows[1].turnover = SnapKind1.turnover
    /\ rows[1].last = 10 /\ rows[1].high = 10 /\ rows[1].low = 10
    /\ rows[2].qty = SnapKind2.qty /\ rows[2].turnover = SnapKind2.turnover
    /\ rows[2].last = 11 /\ rows[2].high = 11 /\ rows[2].low = 10

\* the 09:40 bars of the output
BarsAt0940 == {b \in Rows(snap_bars) : dt_time(b.bar_time) = Hms(9, 40, 0)}

\* C7: the vol and amt of a snap bar are the cumulative qty and turnover of a
\* latest snapshot of its window less those of a latest snapshot of the symbol
\* before the window, and the cumulative values themselves when the symbol has
\* no snapshot before the window; the two snapshots of S3, which 1m and 5m put
\* in two bars, give the 09:40 bar amt 15000 and vol 150.
C7_SnapCumulativeDiff ==
    pc = "snap_bars" =>
      /\ \A b \in Rows(snap_bars) :
            LET in == SnapsIn(b.symbol, b.date, b.bar_time)
                before == SnapsBefore(b.symbol, b.date, b.bar_time)
            IN  /\ in # {}
                /\ \E l \in Latest(in) :
                      IF before = {}
                        THEN b.vol = l.qty /\ b.amt = l.turnover
                      ELSE \E p \in Latest(before) :
                              /\ b.vol = l.qty - p.qty
                              /\ b.amt = l.turnover - p.turnover
      /\ (IsS3(raw_snap) /\ freq \in {"1m", "5m"}) =>
            /\ BarsAt0940 # {}
            /\ \A b \in BarsAt0940 : b.amt = 15000 /\ b.vol = 150

\* the bars of S3 at 5m
C7_Witness ==
    /\ pc = "snap_bars" /\ freq = "5m" /\ IsS3(raw_snap)
    /\ Len(snap_bars) = 2
    /\ snap_bars[1].vol = 100 /\ snap_bars[1].amt = 10000
    /\ snap_bars[2].vol = 150 /\ snap_bars[2].amt = 15000

\* C8: a snap bar has high >= max(open, close, low) and
\* low <= min(open, close, high), its open being the close of the bar before
\* it, or its own first last-price when it is the first of its symbol; the
\* 09:40 bar of S3 has open 10, close 11, high 11 and low 10.
C8_SnapHighLow ==
    pc = "snap_bars" =>
      /\ \A b \in Rows(snap_bars) :
            /\ b.high >= b.open /\ b.high >= b.close /\ b.high >= b.low
            /\ b.low <= b.open /\ b.low <= b.close /\ b.low <= b.high
      /\ (IsS3(raw_snap) /\ freq \in {"1m", "5m"}) =>
            /\ BarsAt0940 # {}
            /\ \A b \in BarsAt0940 :
                  b.open = 10 /\ b.close = 11 /\ b.high = 11 /\ b.low = 10

-----------------------------------------------------------------------------
(* Properties of the surge detectors *)

\* the rows a detector returned
SurgeRows == Rows(surge_out.rows)

\* the baseline columns of an output row: vol_mean and vol_std in EOD mode,
\* vol_mean_baseline and vol_std_baseline in the M10 modes
Mu(r) ==
    IF "vol_mean" \in DOMAIN r THEN r.vol_mean ELSE r.vol_mean_baseline
Sigma(r) ==
    IF "vol_std" \in DOMAIN r THEN r.vol_std ELSE r.vol_std_baseline

\* vol > mu + theta * sigma, for mu = m[1] / m[2], theta = th[1] / th[2] >= 0
\* and sigma the square root of v[1] / v[2]
Above(vol, m, v, th) ==
    /\ vol * m[2] > m[1]
    /\ (vol * m[2] - m[1]) * (vol * m[2] - m[1]) * th[2] * th[2] * v[2]
         > th[1] * th[1] * v[1] * m[2] * m[2]

C9_WitnessEod ==
    /\ pc = "surge" /\ surge_cfg.output_freq = "EOD"
    /\ surge_cfg.threshold = <<1, 1>>
    /\ Len(surge_out.rows) = 3
    /\ surge_out.rows[3].vol_mean = Some(<<120, 3>>)
    /\ ~surge_out.rows[1].is_surge /\ ~surge_out.rows[2].is_surge
    /\ surge_out.rows[3].is_surge

\* the same-time detector marked a bar against the same time of two days
C9_WitnessSameTime ==
    /\ pc = "surge" /\ surge_cfg.output_freq = "M10"
    /\ surge_cfg.m10_method = "same_time"
    /\ \E r \in SurgeRows : r.is_surge

\* the bars of bar_df of a symbol and a time of day on the days from..to
BarsOn(sym, tod, from, to) ==
    SelectSeq(bar_df, LAMBDA q : /\ q.symbol = sym
                                 /\ dt_time(q.bar_time) = tod
                                 /\ from <= q.date /\ q.date <= to)

\* C10: in same-time mode the baseline of an output bar of date D is the mean
\* and the std of vol over the bars of its symbol and time of day on the H
\* business days D-H..D-1, and a date with fewer than H days before it has no
\* output row.
C10_AsClaimed ==
    (/\ pc = "surge" /\ surge_cfg.output_freq = "M10"
     /\ surge_cfg.m10_method = "same_time") =>
      \A r \in SurgeRows :
         LET H == surge_cfg.lookback_days
             base == Map(BarsOn(r.symbol, dt_time(r.bar_time), r.date - H,
                                r.date - 1), LAMBDA q : q.vol)
         IN  /\ r.date - 1 >= H
             /\ r.vol_mean_baseline = mean(base)
             /\ r.vol_std_baseline = std(base)

-----------------------------------------------------------------------------
(* Properties of the rolling baseline *)

\* bar q comes before bar r in the (date, bar_time) order of one symbol
Precedes(q, r) ==
    /\ q.symbol = r.symbol
    /\ q.date < r.date \/ (q.date = r.date /\ q.bar_time < r.bar_time)

\* the bars of bar_df of r's symbol before r
Earlier(r) == SelectSeq(bar_df, LAMBDA q : Precedes(q, r))

\* the k bars of bar_df immediately before r: fewer than k bars of the symbol
\* lie between each of them and r
Preceding(r, k) ==
    SelectSeq(Earlier(r), LAMBDA q :
       Cardinality({j \in 1..Len(bar_df) : /\ Precedes(q, bar_df[j])
                                            /\ Precedes(bar_df[j], r)}) < k)

IsRolling ==
    /\ pc = "surge" /\ surge_cfg.output_freq = "M10"
    /\ surge_cfg.m10_method = "rolling"

-----------------------------------------------------------------------------
(* Properties of the factor aggregators *)

\* SurgeFactor.calculate returned a frame
FactorReturned == pc = "factor" /\ factor_out.error = ""

\* the rows of the frame SurgeFactor.calculate returned
FactorRows == Rows(factor_out.rows)

\* the enclosing bar time of the M10 grid
TauM10(bar_time) == WindowEnd(bar_time, "10m")

\* the bar_ret of the surge bars that satisfy P, in the order of the detector
SurgeRets(P(_)) ==
    Map(SelectSeq(surge_out.rows, LAMBDA b : b.is_surge /\ P(b)),
        LAMBDA b : b.bar_ret)

\* the instance adds neither the cross-sectional mean nor the absolute value
IsRaw == ~surge_cfg.neutralize /\ ~surge_cfg.is_abs

\* C12: every row of an M10 surge_ret output has a bar_time on the M10 grid,
\* and its value is the statistic of bar_ret over exactly the surge bars of
\* its symbol and date whose bar_time projects to the row's bar_time.
C12_AsClaimed ==
    (FactorReturned /\ surge_cfg.output_freq = "M10" /\ IsRaw) =>
      \A r \in FactorRows :
         /\ dt_time(r.bar_time) \in M10_TIMESTAMPS
         /\ r.factor_value =
              stat_of(surge_cfg.intraday_stat,
                      SurgeRets(LAMBDA b : /\ b.symbol = r.symbol
                                           /\ b.date = r.date
                                           /\ TauM10(b.bar_time) = r.bar_time))

IsEodSurgeRet ==
    /\ FactorReturned /\ surge_cfg.output_freq = "EOD"
    /\ surge_cfg.factor_type = "surge_ret"

\* the (symbol, date) pairs with at least one surge bar
SurgeDays ==
    {<<b.symbol, b.date>> : b \in {q \in SurgeRows : q.is_surge}}

\* the configured statistic of bar_ret over the surge bars of a symbol-day
DayStat(sym, d) ==
    stat_of(surge_cfg.intraday_stat,
            SurgeRets(LAMBDA b : b.symbol = sym /\ b.date = d))

\* the mean over the symbols with a surge bar on day d of their statistics
MarketStat(d) ==
    stat_of("mean", Map(SetToSeq({p \in SurgeDays : p[2] = d}),
                        LAMBDA p : DayStat(p[1], p[2])))

\* one row per symbol-day with a surge bar, and no other row
OneRowPerSurgeDay ==
    /\ Len(factor_out.rows) = Cardinality(SurgeDays)
    /\ {<<r.symbol, r.date>> : r \in FactorRows} = SurgeDays

\* C13 as stated: one EOD surge_ret row per symbol-day with a surge bar, its
\* factor_value being the configured statistic of bar_ret over the surge bars
\* of that symbol-day.
C13_AsClaimed ==
    IsEodSurgeRet =>
      /\ OneRowPerSurgeDay
      /\ \A r \in FactorRows : r.factor_value = DayStat(r.symbol, r.date)

\* C13 as amended: one EOD surge_ret row per symbol-day with a surge bar; its
\* individual_stat is the configured statistic of bar_ret over the surge bars
\* of that symbol-day, and its factor_value is that statistic, less the mean
\* of the statistics of the symbols of that date when neutralize is set, in
\* absolute value when is_abs is set.
C13_EodSurgeRet ==
    IsEodSurgeRet =>
      /\ OneRowPerSurgeDay
      /\ \A r \in FactorRows :
            LET own == DayStat(r.symbol, r.date)
                net == IF surge_cfg.neutralize
                       THEN null_sub(own, MarketStat(r.date))
                       ELSE own
            IN  /\ r.individual_stat = own
                /\ r.factor_value =
                     (IF surge_cfg.is_abs THEN null_abs(net) ELSE net)

\* the bars of one symbol and day with vol 10, 10, 100 and bar_ret 0.001,
\* 0.002, 0.05
IsS4 ==
    /\ Len(bar_df) = 3
    /\ \A i \in 1..3 : /\ bar_df[i].symbol = bar_df[1].symbol
                         /\ bar_df[i].date = bar_df[1].date
    /\ bar_df[1].vol = 10 /\ bar_df[1].bar_ret = Some(<<1, 1000>>)
    /\ bar_df[2].vol = 10 /\ bar_df[2].bar_ret = Some(<<1, 500>>)
    /\ bar_df[3].vol = 100 /\ bar_df[3].bar_ret = Some(<<1, 20>>)

\* S4 at threshold 1 with the mean and without neutralization: one row with
\* factor_value 0.05
C13_Witness ==
    /\ IsEodSurgeRet /\ IsS4 /\ IsRaw
    /\ surge_cfg.threshold = <<1, 1>> /\ surge_cfg.intraday_stat = "mean"
    /\ surge_cfg.trading_time = "all_day"
    /\ Len(factor_out.rows) = 1
    /\ factor_out.rows[1].factor_value = Some(<<1, 20>>)

\* S4 with the default neutralize: the factor_value of the only symbol is 0
C13_WitnessDefault ==
    /\ IsEodSurgeRet /\ IsS4 /\ surge_cfg.neutralize /\ ~surge_cfg.is_abs
    /\ surge_cfg.intraday_stat = "mean"
    /\ Len(factor_out.rows) = 1
    /\ factor_out.rows[1].individual_stat = Some(<<1, 20>>)
    /\ factor_out.rows[1].factor_value = Some(<<0, 1>>)

\* two symbols with surge bars on one day, neutralized
C13_WitnessTwoSymbols ==
    /\ IsEodSurgeRet /\ surge_cfg.neutralize
    /\ \E r, q \in FactorRows :
          /\ r.symbol # q.symbol /\ r.date = q.date
          /\ ~IsNull(r.factor_value) /\ ~IsNull(q.factor_value)
          /\ r.factor_value # q.factor_value

\* C14: every EOD factor row (surge_ret and surge_vol) has a bar_time column
\* whose date is the row's date and whose time of day is 15:00:00.000.
C14_AsClaimed ==
    (FactorReturned /\ surge_cfg.output_freq = "EOD") =>
      \A r \in FactorRows :
         /\ "bar_time" \in DOMAIN r
         /\ dt_date(r.bar_time) = r.date
         /\ dt_time(r.bar_time) = Hms(15, 0, 0)

\* the detector returned a frame in which is_surge is never true
NoSurgeBar ==
    /\ surge_out.error = ""
    /\ \A b \in SurgeRows : ~b.is_surge

\* C15: an aggregation (surge_ret or surge_vol) of a surge frame in which
\* is_surge is never true ends in an error and returns no frame.
C15_AsClaimed ==
    (pc = "factor" /\ NoSurgeBar) => factor_out.error # ""

\* the bars of a set in the order of bar_time
RECURSIVE ByTime(_)
ByTime(S) ==
    IF S = {} THEN <<>>
    ELSE LET b == CHOOSE x \in S : \A y \in S : x.bar_time <= y.bar_time
         IN  <<b>> \o ByTime(S \ {b})

\* the bars of the symbol and date of the bar b from b on, in time order
FromBar(b) ==
    ByTime({q \in SurgeRows : /\ q.symbol = b.symbol /\ q.date = b.date
                              /\ q.bar_time >= b.bar_time})

\* the square of the standard deviation of the chosen column over the window
\* of surge_window bars that starts at the bar b, null when the window is
\* not full or holds a null
ForwardVol(b) ==
    LET w == surge_cfg.surge_window
        col == IF IsNull(surge_cfg.price_type) THEN "bar_ret"
               ELSE Val(surge_cfg.price_type)
        vals == Map(SubSeq(FromBar(b), 1, w), LAMBDA q : data_of(q, col))
    IN  IF Len(FromBar(b)) < w \/ (\E j \in 1..Len(vals) : IsNull(vals[j]))
        THEN Null
        ELSE rat_var(drop_nulls(vals))

\* the volatilities of the surge bars of a symbol-day that have a full window
\* starting at them, in time order
ForwardVols(sym, d) ==
    Map(SelectSeq(ByTime({q \in SurgeRows : /\ q.symbol = sym /\ q.date = d
                                            /\ q.is_surge}),
                  LAMBDA b : ~IsNull(ForwardVol(b))),
        ForwardVol)

\* C25: for EOD surge_vol the volatility of a surge bar is the standard
\* deviation over the surge_window bars of the symbol and date that start at
\* the surge bar: a symbol-day has a row exactly when one of its surge bars
\* has a full window, and the row's statistic is over the volatilities of
\* those windows, each counted
C25_AsClaimed ==
    (FactorReturned /\ surge_cfg.factor_type = "surge_vol") =>
      \A b \in SurgeRows :
         LET rows == {r \in FactorRows : r.symbol = b.symbol /\ r.date = b.date}
             vols == ForwardVols(b.symbol, b.date)
         IN  IF vols = <<>> THEN rows = {}
             ELSE /\ Cardinality(rows) = 1
                  /\ \A r \in rows :
                        r.individual_stat =
                          [stat |-> surge_cfg.intraday_stat, of |-> vols]

-----------------------------------------------------------------------------
(* Properties of the factor engine *)

\* the tasks that have built their bars
Built(i) ==
    /\ tasks[i].state # "submitted"
    /\ tasks[i].error # "FileNotFoundError"

\* the instance of the j-th factor config
FactorOf(j) == SurgeFactorOf(engine_cfgs[j])

\* an M10 same-time factor whose frame holds fewer than H dates before the
\* settlement date
InsufficientHistory(cfg, task) ==
    /\ cfg.output_freq = "M10"
    /\ cfg.m10_method = "same_time"
    /\ Cardinality({task.bar_data[n].date : n \in
                      {m \in 1..Len(task.bar_data) :
                         task.bar_data[m].date < task.date}})
         < cfg.lookback_days

\* the frames with rows that a factor gives for the bars of a task
RowsOf(cfg, task) ==
    {df.rows : df \in {d \in calculate_single_day(cfg, task.date,
                                                   task.bar_data) :
                         d.error = "" /\ Len(d.rows) > 0}}

\* C16: when an M10 same-time factor of a task cannot assemble H prior days,
\* the other factors of the task are still computed and returned for the
\* settlement date: every frame with rows that another factor gives on the
\* bars of the task is in the result of the task
C16_AsClaimed ==
    \A i \in 1..Len(tasks) :
       (/\ Built(i)
        /\ \E j \in 1..Len(engine_cfgs) :
              InsufficientHistory(FactorOf(j), tasks[i]))
       => \A j \in 1..Len(engine_cfgs) :
             ~InsufficientHistory(FactorOf(j), tasks[i])
             => \A df \in RowsOf(FactorOf(j), tasks[i]) :
                   /\ df[1].factor_name \in DOMAIN tasks[i].result
                   /\ tasks[i].result[df[1].factor_name] = df

\* the bar_freq of a factor config
ConfigFreq(config) ==
    IF "bar_freq" \in DOMAIN config THEN config.bar_freq ELSE "1m"

\* C17: in a settlement-day task every factor config is evaluated on bars
\* built at the config's own bar_freq: the frequency of the bars the task
\* hands to the factors is the bar_freq of each of the configs
C17_AsClaimed ==
    \A i \in 1..Len(tasks) :
       Built(i) => \A j \in 1..Len(engine_cfgs) :
                      tasks[i].bar_freq = ConfigFreq(engine_cfgs[j])

\* the rows of the frame of factor n in a map of frames
RowsIn(results, n) ==
    IF n \in DOMAIN results
    THEN {results[n][k] : k \in 1..Len(results[n])} ELSE {}

\* the task of a settlement date failed: an exception ended it
Failed(i) == tasks[i].error # ""

\* C18: when calculate returns, every submitted task has run and has been
\* collected; a task that failed has an empty result and no merged frame has
\* a row of its date; every row of every frame of a task that did not fail
\* is in the merged frame of its factor
C18_FailureIsolated ==
    pc = "returned" =>
      \A i \in 1..Len(tasks) :
         /\ tasks[i].state = "collected"
         /\ Failed(i) =>
              /\ tasks[i].result = <<>>
              /\ \A n \in DOMAIN engine_out.results :
                    \A r \in RowsIn(engine_out.results, n) :
                       r.date # tasks[i].date
         /\ ~Failed(i) =>
              \A n \in DOMAIN tasks[i].result :
                 /\ tasks[i].result[n] # <<>>
                 /\ RowsIn(tasks[i].result, n)
                      \subseteq RowsIn(engine_out.results, n)

\* calculate has returned after a failed task and after a task with a frame
C18_Witness ==
    /\ pc = "returned"
    /\ \E i, j \in 1..Len(tasks) :
          /\ Failed(i)
          /\ ~Failed(j)
          /\ tasks[j].result # <<>>
          /\ engine_out.results # <<>>

\* C19: FactorEngine.calculate never lets an exception reach its caller,
\* whatever its arguments are and whatever fails in the tasks: what it gives
\* its caller is never an exception
C19_AsClaimed == engine_out.error = ""

\* the results of the tasks that are not empty, in the order of submission
TaskResults ==
    SelectSeq([i \in 1..Len(tasks) |-> tasks[i].result],
              LAMBDA result : result # <<>>)

\* a frame in the order of (symbol, date, bar_time)
MergeSorted(df) ==
    \A k \in 1..(Len(df) - 1) : ~KeyLess(merge_key(df[k + 1]), merge_key(df[k]))

\* C20: the map calculate returns does not depend on the order in which the
\* tasks complete: when it returns, every task has completed, the map is the
\* one and only merge of the results of the tasks taken in the order of
\* submission, and each of its frames is in the order of
\* (symbol, date, bar_time)
C20_OrderIndependent ==
    pc = "returned" =>
      /\ \A i \in 1..Len(tasks) : tasks[i].state = "collected"
      /\ merge_results(TaskResults) = {engine_out.results}
      /\ \A n \in DOMAIN engine_out.results :
            MergeSorted(engine_out.results[n])

\* calculate has returned after the second task completed before the first,
\* each with a frame of its own
C20_Witness ==
    /\ pc = "returned"
    /\ Len(tasks) = 2
    /\ Len(all_results) = 2
    /\ tasks[1].result # tasks[2].result
    /\ all_results[1] = tasks[2].result
    /\ all_results[2] = tasks[1].result
    /\ \E n \in DOMAIN engine_out.results : Len(engine_out.results[n]) = 2

\* the lookback the claim gives a config, in business days
ClaimedLookback(config) ==
    LET cfg == SurgeFactorOf(config)
        n == Cardinality(get_timestamps(cfg.bar_freq))
        k == cfg.lookback_bars
    IN  IF cfg.output_freq = "EOD" THEN 0
        ELSE IF cfg.m10_method = "same_time" THEN cfg.lookback_days
        ELSE (CHOOSE m \in 0..k : m * n >= k /\ (m - 1) * n < k) + 1

\* C24: a settlement-day task of date D loads exactly the business days from
\* D minus max_lookback through D, max_lookback being the largest over the
\* configs of 0 for EOD, H for M10 same-time and ceil(k / bars per day) + 1
\* for M10 rolling
C24_LookbackDays ==
    \A i \in 1..Len(tasks) :
       tasks[i].state # "submitted" =>
         LET L == SetMax({ClaimedLookback(engine_cfgs[j]) :
                            j \in 1..Len(engine_cfgs)})
         IN  tasks[i].loaded = [n \in 1..(L + 1) |-> tasks[i].date - L + n - 1]

\* a task of two configs of different lookback has loaded three days and
\* computed its factors
C24_Witness ==
    \E i \in 1..Len(tasks) :
       /\ tasks[i].state # "submitted"
       /\ Len(engine_cfgs) = 2
       /\ ClaimedLookback(engine_cfgs[1]) # ClaimedLookback(engine_cfgs[2])
       /\ Len(tasks[i].loaded) = 3
       /\ tasks[i].result # <<>>

-----------------------------------------------------------------------------
(* Properties of the bars as a whole *)

\* the qty of the loaded trades of a symbol and date that are not cancels
TradedQty(sym, d) ==
    SumSeq(Map(SelectSeq(drop_cancels(trade_lf), LAMBDA r :
                           r.symbol = sym /\ dt_date(r.xts) = d),
               LAMBDA r : r.qty))

\* the vol of the emitted bars of a symbol and date
BarVol(sym, d) ==
    SumSeq(Map(SelectSeq(trade_bars, LAMBDA b : b.symbol = sym /\ b.date = d),
               LAMBDA b : b.vol))

\* C27: with filter_valid = True every trade the loader retains that is not a
\* cancel is counted in exactly one emitted bar: for every symbol and date the
\* vol of the emitted bars adds up to the qty of those trades
C27_AsClaimed ==
    (pc = "trade_bars" /\ filter_valid) =>
      \A r \in Rows(trade_lf) :
         BarVol(r.symbol, dt_date(r.xts)) = TradedQty(r.symbol, dt_date(r.xts))

\* the loaded snapshots of a symbol on the day d before the window of a bar
SnapsOfDayBefore(sym, d, bt) ==
    {r \in SnapsBefore(sym, d, bt) : r.date = d}

\* C28: when the snapshots of several dates are aggregated at once, every
\* emitted bar has vol >= 0 and amt >= 0, and the first bar of a symbol on a
\* date counts only that date's own volume and turnover: the cumulative qty
\* and turnover of a latest snapshot of its window
C28_AsClaimed ==
    pc = "snap_bars" =>
      \A b \in Rows(snap_bars) :
         /\ b.vol >= 0 /\ b.amt >= 0
         /\ SnapsOfDayBefore(b.symbol, b.date, b.bar_time) = {} =>
              \E l \in Latest(SnapsIn(b.symbol, b.date, b.bar_time)) :
                 b.vol = l.qty /\ b.amt = l.turnover

\* the frames that hold the rows of lf in another order
Reordered(lf) ==
    {[i \in 1..Len(lf) |-> lf[p[i]]] : p \in Permutations(1..Len(lf))}

\* C29: the bars of group_by_bar_trade depend only on the set of the input
\* trades: every frame that holds the loaded trades in some order gives the
\* bars that were emitted, and no others
C29_AsClaimed ==
    pc = "trade_bars" =>
      \A lf \in Reordered(trade_lf) :
         group_by_bar_trade(lf, freq, filter_valid) = {trade_bars}

-----------------------------------------------------------------------------
(* Properties of the cancel-ratio driver *)

\* C22: on a date for which a tick file that the computation reads (trade or
\* quote, of either exchange) is absent, the run of the date raises nothing
\* and saves no factor.
C22_AsClaimed ==
    (\E f \in TickFiles : IsNull(tick_files[f])) =>
        /\ cancel_run.error = ""
        /\ cancel_run.saved = <<>>

\* the factor dictionaries that high_freq_cancel_m10_single_mkt has returned
SingleMktOuts ==
    {Val(o) : o \in {cancel_run.sh, cancel_run.sz} \ {Null}}

\* C30: every matrix that high_freq_cancel_m10_single_mkt returns has the 24
\* timestamps of the M10 grid of the date as its index, each once and
\* ascending, and its 13:10 row equals its 11:30 row in every column, missing
\* where the 11:30 cell is missing.
C30_GridIndex ==
    pc # "cancel_main" =>
      \A out \in SingleMktOuts : \A n \in DOMAIN out :
        /\ out[n].index = full_index(CancelDate)
        /\ {dt_time(out[n].index[i]) : i \in 1..24} = M10_TIMESTAMPS
        /\ \A j \in 1..Len(out[n].columns) :
             out[n].cell[<<datetime(CancelDate, Hms(13, 10, 0)),
                           out[n].columns[j]>>]
               = out[n].cell[<<datetime(CancelDate, Hms(11, 30, 0)),
                               out[n].columns[j]>>]

\* the cancels of the Shanghai quote file in the ten minutes before a time
CancelsBefore(tod) ==
    IF IsNull(tick_files[<<"quote", "SH">>]) THEN {}
    ELSE LET quote == Val(tick_files[<<"quote", "SH">>])
         IN  {i \in 1..Len(quote) :
                /\ quote[i].ty = 68
                /\ cancel_window(quote[i].xts) = datetime(CancelDate, tod)}

\* the Shanghai matrices are returned for a file with cancels in the ten
\* minutes before 13:10 and before 11:30, and a 13:10 cell has a value
C30_Witness ==
    /\ pc = "cancel_SZ"
    /\ CancelsBefore(Hms(13, 10, 0)) # {}
    /\ CancelsBefore(Hms(11, 30, 0)) # {}
    /\ \E j \in 1..Len(Val(cancel_run.sh).hf_cancel_cnt_5_30.columns) :
         ~IsNull(Val(cancel_run.sh).hf_cancel_cnt_5_30.cell[
                   <<datetime(CancelDate, Hms(13, 10, 0)),
                     Val(cancel_run.sh).hf_cancel_cnt_5_30.columns[j]>>])

-----------------------------------------------------------------------------
(* Properties of the saver *)

\* C21: the matrix that the saver pivots out of a long factor frame has the
\* distinct bar_time values of the frame in ascending order as its index and
\* the distinct symbols, each once, as its columns; its cell (t, s) is the
\* factor_value of the row with bar_time t and symbol s; and the pivot of the
\* long form of the matrix is the matrix again, with the same index, the same
\* set of columns and the same cells.
C21_PivotRoundTrip ==
    pc \in {"saving", "saved"} =>
      \A e \in {save_run.log[i] : i \in 1..Len(save_run.log)} :
        LET df == save_run.results[e.factor_name]
            back == pivot(long(e.wide), "bar_time", "symbol", "factor_value")
        IN  /\ \A i \in 1..(Len(e.wide.index) - 1) :
                 e.wide.index[i] < e.wide.index[i + 1]
            /\ {e.wide.index[i] : i \in 1..Len(e.wide.index)}
                 = {df[i].bar_time : i \in 1..Len(df)}
            /\ \A i, j \in 1..Len(e.wide.columns) :
                 e.wide.columns[i] = e.wide.columns[j] => i = j
            /\ {e.wide.columns[i] : i \in 1..Len(e.wide.columns)}
                 = {df[i].symbol : i \in 1..Len(df)}
            /\ \A i \in 1..Len(df) :
                 e.wide.cell[<<df[i].bar_time, df[i].symbol>>]
                   = df[i].factor_value
            /\ back.index = e.wide.index
            /\ {back.columns[i] : i \in 1..Len(back.columns)}
                 = {e.wide.columns[i] : i \in 1..Len(e.wide.columns)}
            /\ back.cell = e.wide.cell

\* a frame whose rows are not in the order of bar_time is pivoted to a matrix
\* of two rows and two columns with a cell that no row fills
C21_Witness ==
    /\ pc = "saving"
    /\ \E i \in 1..Len(save_run.log) :
         LET df == save_run.results[save_run.log[i].factor_name]
             wide == save_run.log[i].wide
         IN  /\ Len(df) = 2
             /\ df[1].bar_time > df[2].bar_time
             /\ Len(wide.index) = 2 /\ Len(wide.columns) = 2
             /\ IsNull(wide.cell[<<df[1].bar_time, df[2].symbol>>])

-----------------------------------------------------------------------------
(* Properties of the log sink *)

\* C26: while the tasks of the pool run, a thread that is inside a print to
\* stdout holds the print lock of the engine, so that at most one thread is
\* inside a print at a time.
C26_AsClaimed ==
    pc = "pool_run" =>
      /\ \A t \in writers(pool_run) : pool_run.lock = Some(t)
      /\ Cardinality(writers(pool_run)) <= 1

====
